---- MODULE Spec2Model ----
(***************************************************************************)
(* Model of src/scheduled-workflow-with-timezone.js: the hourly tick       *)
(* runScheduledWorkflows (load users, compute the two due sets, analysis   *)
(* pass, email pass) and the local-hour-to-UTC resolver convertLocalToUTC. *)
(*                                                                         *)
(* and the formatters that render the stored marketing strategy as HTML.   *)
(*                                                                         *)
(* The specifications share the variables:                                 *)
(*   Spec          the tick state machine over a small stored population   *)
(*   SpecSchedule  the due-set loop of one tick over every user preference *)
(*   SpecResolve   convertLocalToUTC over every local hour and zone        *)
(*   SpecList      createListHtml over every short string                  *)
(*   SpecThemes    formatContentThemesHtml over strings and arrays         *)
(*   SpecHashtag   formatHashtagStrategyHtml over every short string       *)
(*   SpecAssemble  formatMarketingStrategyToHtml over small documents      *)
(***************************************************************************)
EXTENDS Integers, Sequences, FiniteSets, TLC

VARIABLES
    hourCycle,        \* how the runtime resolves hour12:false for en-US
    profile,          \* users table: columns this job only reads
    db,               \* users table: columns this job writes and reads back
    pc,               \* position inside runScheduledWorkflows
    currentHour,      \* now.getUTCHours()
    allUsers,         \* the rows returned by the select
    usersForAnalysis, \* the rows pushed for analysis, in push order
    usersForEmail,    \* the rows pushed for email, in push order
    idx,              \* position of the running for..of loop
    inflight,         \* the external call being awaited
    apiCalls,         \* users for whom api.post was invoked this tick
    apiResult,        \* what runWorkflowForUser returned this tick
    mailCalls,        \* emailApi.sendTransacEmail invocations of this tick
    mailResult,       \* what sendAnalysisEmail returned this tick
    writes,           \* supabase update() calls issued this tick, timestamps included
    aborted,          \* the outer catch of runScheduledWorkflows ran
    argLocalHour,     \* SpecResolve: argument localHour
    argTimezone,      \* SpecResolve: argument timezone
    ret,              \* SpecResolve: value returned
    input,            \* formatter specifications: the argument
    output            \* formatter specifications: the HTML returned

vars == <<hourCycle, profile, db, pc, currentHour, allUsers, usersForAnalysis,
          usersForEmail, idx, inflight, apiCalls, apiResult, mailCalls,
          mailResult, writes, aborted, argLocalHour, argTimezone, ret,
          input, output>>

-----------------------------------------------------------------------------
(* Bounds *)

\* rows of the users table with email_notifications = true
NumUsers == 2

\* lexemes in a string handed to a formatter
MaxLen == 4

\* elements of a contentThemes array, and lexemes in an element
MaxItems == 2

MaxItemLen == 2

\* lines of a hashtag strategy
MaxLines == 3

-----------------------------------------------------------------------------
(* Hours and time zones *)

HoursPerDay == 24

Hours == 0 .. (HoursPerDay - 1)

\* email_time_hour is null / undefined
NoHour == -1

\* the hour substituted by `user.email_time_hour || 9`
DefaultLocalHour == 9

\* timezone is null / undefined / ''
NoZone == "<none>"

DefaultZone == "UTC"

\* an id Intl.DateTimeFormat rejects with a RangeError
BadZone == "Not/AZone"

\* Zones as they behave on the reference day ("today"): the offset from UTC
\* in whole hours before and from the UTC hour `at` on.  A zone without a
\* transition today has before = after.
ZoneTable ==
    [z \in {"UTC", "Etc/GMT-5", "Etc/GMT+3", "SpringForwardToday", "FallBackToday"} |->
        CASE z = "UTC"                -> [before |-> 0,  after |-> 0,  at |-> 0]
          [] z = "Etc/GMT-5"          -> [before |-> 5,  after |-> 5,  at |-> 0]
          [] z = "Etc/GMT+3"          -> [before |-> -3, after |-> -3, at |-> 0]
          [] z = "SpringForwardToday" -> [before |-> -5, after |-> -4, at |-> 7]
          [] z = "FallBackToday"      -> [before |-> -4, after |-> -5, at |-> 6]]

ValidZones == DOMAIN ZoneTable

Zones == ValidZones \cup {BadZone}

\* hour12:false resolves to hourCycle h23 (midnight is 0) or h24 (midnight
\* is 24), depending on the ECMA-402 edition the runtime implements
HourCycles == {"h23", "h24"}

\* hour of day shown on a wall clock in zone tz at utcHourCandidate:00 UTC today
WallClockHour(utcHourCandidate, tz) ==
    LET z   == ZoneTable[tz]
        off == IF utcHourCandidate < z.at THEN z.before ELSE z.after
    IN  (utcHourCandidate + off + HoursPerDay) % HoursPerDay

\* formatter.format(date): the two-digit hour field, as a sequence of digits
FormatHour(utcHourCandidate, tz) ==
    LET w == WallClockHour(utcHourCandidate, tz)
        h == IF hourCycle = "h24" /\ w = 0 THEN HoursPerDay ELSE w
    IN  <<h \div 10, h % 10>>

\* parseInt on a string of decimal digits
RECURSIVE ParseDigits(_, _)
ParseDigits(digits, acc) ==
    IF digits = <<>> THEN acc
    ELSE ParseDigits(Tail(digits), 10 * acc + Head(digits))

parseInt(digits) == ParseDigits(digits, 0)

hourInUserTimezone(utcHourCandidate, tz) == parseInt(FormatHour(utcHourCandidate, tz))

\* the loop without its early return: a later match overwrites an earlier one
RECURSIVE SearchCandidateKeepLast(_, _, _)
SearchCandidateKeepLast(from, localHour, tz) ==
    IF from >= HoursPerDay
    THEN [hour |-> localHour, path |-> "nomatch"]
    ELSE LET rest == SearchCandidateKeepLast(from + 1, localHour, tz) IN
         IF rest.path = "match" THEN rest
         ELSE IF hourInUserTimezone(from, tz) = localHour
              THEN [hour |-> from, path |-> "match"]
              ELSE rest

\* the for loop of convertLocalToUTC, from candidate `from` upwards
RECURSIVE SearchCandidate(_, _, _)
SearchCandidate(from, localHour, tz) ==
    IF from >= HoursPerDay
    THEN [hour |-> localHour, path |-> "nomatch"]
    ELSE IF hourInUserTimezone(from, tz) = localHour
         THEN [hour |-> from, path |-> "match"]
         ELSE SearchCandidate(from + 1, localHour, tz)

FirstCandidate == 0

\* convertLocalToUTC with the branch it left through
ConvertTrace(localHour, tz) ==
    IF tz \notin ValidZones
    THEN [hour |-> localHour, path |-> "error"]
    ELSE SearchCandidate(FirstCandidate, localHour, tz)

convertLocalToUTC(localHour, tz) == ConvertTrace(localHour, tz).hour

-----------------------------------------------------------------------------
(* Response bodies of POST /api/complete-workflow, as stored and read back *)

\* {} as a marketing strategy document
EmptyDoc == "{}"

\* the analysis payload {searchQueries, videosCount, marketingStrategy};
\* searchQueries is kept by its length
Payloads ==
    { [searchQueries |-> 2, videosCount |-> 6, marketingStrategy |-> "MS1"],
      [searchQueries |-> 3, videosCount |-> 9, marketingStrategy |-> "MS2"] }

NoPayload == [searchQueries |-> 0, videosCount |-> 0, marketingStrategy |-> EmptyDoc]

\* null, undefined or ''
NullBody == [shape |-> "null", payload |-> NoPayload]

\* {}
EmptyBody == [shape |-> "empty", payload |-> NoPayload]

\* the payload itself: {searchQueries, videosCount, marketingStrategy}
FlatBody(p) == [shape |-> "flat", payload |-> p]

\* the payload under a data key: {data: {searchQueries, ...}}
WrappedBody(p) == [shape |-> "wrapped", payload |-> p]

FlatPayloads == {p \in Payloads : p.marketingStrategy = "MS1"}

WrappedPayloads == {p \in Payloads : p.marketingStrategy = "MS2"}

\* bodies a 2xx response can carry
ResponseBodies ==
    {NullBody, EmptyBody} \cup {FlatBody(p) : p \in FlatPayloads}
                          \cup {WrappedBody(p) : p \in WrappedPayloads}

\* ways api.post rejects
CallFailures == {"rejected", "errorStatus", "noResponse"}

Truthy(body) == body.shape # "null"

\* Object.keys(body).length
KeysLength(body) ==
    CASE body.shape = "flat"    -> 3
      [] body.shape = "wrapped" -> 1
      [] OTHER                  -> 0

\* the emptiness test left out: `if (result)`
TruthyResult(body) == Truthy(body)

\* `result && Object.keys(result).length > 0`
NonEmptyResult(body) == Truthy(body) /\ KeysLength(body) > 0

-----------------------------------------------------------------------------
(* User rows *)

Users == 1 .. NumUsers

\* the one prerequisite column a row may lack
Prerequisites == {"business_description", "auth_id", "email"}

Row(id, missing, tz, hour, ready, results) ==
    [ id                       |-> id,
      email                    |-> "email" \notin missing,
      business_description     |-> "business_description" \notin missing,
      auth_id                  |-> "auth_id" \notin missing,
      timezone                 |-> tz,
      email_time_hour          |-> hour,
      analysis_ready_for_email |-> ready,
      last_analysis_results    |-> results ]

\* `user.timezone || 'UTC'`
timezoneOf(user) ==
    IF user.timezone = NoZone THEN DefaultZone ELSE user.timezone

\* `user.email_time_hour || 9`: null, undefined and 0 are all falsy
localHourOf(user) ==
    IF user.email_time_hour = NoHour \/ user.email_time_hour = 0
    THEN DefaultLocalHour
    ELSE user.email_time_hour

utcHourOf(user) == convertLocalToUTC(localHourOf(user), timezoneOf(user))

\* the hour left unshifted: the analysis would run in the email hour
analysisHourUnshifted(utcHour) == (utcHour + HoursPerDay) % HoursPerDay

analysisHourOf(utcHour) == (utcHour - 1 + HoursPerDay) % HoursPerDay

DueForAnalysis(user, hour) == analysisHourOf(utcHourOf(user)) = hour

DueForEmail(user, hour) == utcHourOf(user) = hour

\* the first for..of loop of runScheduledWorkflows
FilterUsers(rows, hour) ==
    [ usersForAnalysis |-> SelectSeq(rows, LAMBDA u : DueForAnalysis(u, hour)),
      usersForEmail    |-> SelectSeq(rows, LAMBDA u : DueForEmail(u, hour)) ]

InSeq(x, s) == \E i \in 1 .. Len(s) : s[i] = x

-----------------------------------------------------------------------------
(* Values of the state before anything ran *)

NoCall == "none"

NoResult == [status |-> "none", body |-> NullBody]

FreshDb ==
    [u \in Users |->
        [ analysis_ready_for_email |-> FALSE,
          last_analysis_results    |-> NullBody ]]

FreshLogs ==
    /\ apiCalls = {}
    /\ apiResult = [u \in Users |-> NoResult]
    /\ mailCalls = {}
    /\ mailResult = [u \in Users |-> "none"]
    /\ writes = {}
    /\ aborted = FALSE

NoProfiles ==
    [u \in Users |-> [missing |-> {}, timezone |-> NoZone, email_time_hour |-> NoHour]]

\* no formatter was called
NoInput == <<>>

NoOutput == <<>>

NoArguments ==
    /\ argLocalHour = NoHour
    /\ argTimezone = NoZone
    /\ ret = [hour |-> NoHour, path |-> "none"]
    /\ input = NoInput
    /\ output = NoOutput

-----------------------------------------------------------------------------
(* SpecResolve: convertLocalToUTC over every local hour and zone *)

InitResolve ==
    /\ hourCycle \in HourCycles
    /\ argLocalHour \in Hours
    /\ argTimezone \in Zones
    /\ ret = [hour |-> NoHour, path |-> "none"]
    /\ pc = "call"
    /\ profile = NoProfiles
    /\ db = FreshDb
    /\ currentHour = 0
    /\ allUsers = <<>>
    /\ usersForAnalysis = <<>>
    /\ usersForEmail = <<>>
    /\ idx = 1
    /\ inflight = NoCall
    /\ FreshLogs
    /\ input = NoInput
    /\ output = NoOutput

CallConvert ==
    /\ pc = "call"
    /\ ret' = ConvertTrace(argLocalHour, argTimezone)
    /\ pc' = "returned"
    /\ UNCHANGED <<hourCycle, profile, db, currentHour, allUsers, usersForAnalysis,
                   usersForEmail, idx, inflight, apiCalls, apiResult, mailCalls,
                   mailResult, writes, aborted, argLocalHour, argTimezone, input,
                   output>>

NextResolve == CallConvert

SpecResolve == InitResolve /\ [][NextResolve]_vars

-----------------------------------------------------------------------------
(* The due-set loop as a step of the tick *)

\* lines 445-475: both due sets are filled from allUsers
FilterStep ==
    /\ pc = "filter"
    /\ usersForAnalysis' = FilterUsers(allUsers, currentHour).usersForAnalysis
    /\ usersForEmail' = FilterUsers(allUsers, currentHour).usersForEmail
    /\ pc' = "analysis"
    /\ idx' = 1
    /\ UNCHANGED <<hourCycle, profile, db, currentHour, allUsers, inflight, apiCalls,
                   apiResult, mailCalls, mailResult, writes, aborted, argLocalHour,
                   argTimezone, ret, input, output>>

-----------------------------------------------------------------------------
(* SpecSchedule: the due-set loop over every stored preference and hour *)

SchedulePopulations ==
    { <<Row(1, {}, tz, hour, FALSE, NullBody)>> :
        tz \in Zones \cup {NoZone}, hour \in Hours \cup {NoHour} }

InitSchedule ==
    /\ hourCycle \in HourCycles
    /\ currentHour \in Hours
    /\ allUsers \in SchedulePopulations
    /\ pc = "filter"
    /\ profile = NoProfiles
    /\ db = FreshDb
    /\ usersForAnalysis = <<>>
    /\ usersForEmail = <<>>
    /\ idx = 1
    /\ inflight = NoCall
    /\ FreshLogs
    /\ NoArguments

NextSchedule == FilterStep

SpecSchedule == InitSchedule /\ [][NextSchedule]_vars

-----------------------------------------------------------------------------
(* Spec: the tick state machine *)

\* the hours at which the scheduler starts a tick
TickHours == {8, 9}

\* the (timezone, email_time_hour) pairs stored in the population
TickPreferences ==
    { [timezone |-> NoZone, email_time_hour |-> NoHour],
      [timezone |-> "Etc/GMT-5", email_time_hour |-> 15] }

Profiles ==
    { [missing |-> m, timezone |-> p.timezone, email_time_hour |-> p.email_time_hour] :
        m \in {{}} \cup {{c} : c \in Prerequisites}, p \in TickPreferences }

Init ==
    /\ hourCycle \in HourCycles
    /\ profile \in [Users -> Profiles]
    /\ db = FreshDb
    /\ pc = "idle"
    /\ currentHour \in TickHours
    /\ allUsers = <<>>
    /\ usersForAnalysis = <<>>
    /\ usersForEmail = <<>>
    /\ idx = 1
    /\ inflight = NoCall
    /\ FreshLogs
    /\ NoArguments

unusedInTick == <<hourCycle, profile, argLocalHour, argTimezone, ret, input, output>>

\* lines 424-437: the scheduler starts runScheduledWorkflows; the select is
\* awaited
StartTick ==
    /\ pc = "idle"
    /\ pc' = "fetch"
    /\ currentHour' \in TickHours
    /\ allUsers' = <<>>
    /\ usersForAnalysis' = <<>>
    /\ usersForEmail' = <<>>
    /\ idx' = 1
    /\ inflight' = NoCall
    /\ apiCalls' = {}
    /\ apiResult' = [u \in Users |-> NoResult]
    /\ mailCalls' = {}
    /\ mailResult' = [u \in Users |-> "none"]
    /\ writes' = {}
    /\ aborted' = FALSE
    /\ UNCHANGED db
    /\ UNCHANGED unusedInTick

StoredRow(u) ==
    Row(u, profile[u].missing, profile[u].timezone, profile[u].email_time_hour,
        db[u].analysis_ready_for_email, db[u].last_analysis_results)

\* lines 434-443: the select resolves with the rows
FetchUsersOk ==
    /\ pc = "fetch"
    /\ allUsers' = [i \in 1 .. NumUsers |-> StoredRow(i)]
    /\ pc' = "filter"
    /\ UNCHANGED <<db, currentHour, usersForAnalysis, usersForEmail, idx, inflight,
                   apiCalls, apiResult, mailCalls, mailResult, writes, aborted>>
    /\ UNCHANGED unusedInTick

\* the error left unchecked: the loops run over whatever rows came back
FetchUsersFailUnchecked ==
    /\ pc = "fetch"
    /\ aborted' = TRUE
    /\ allUsers' = [i \in 1 .. NumUsers |-> StoredRow(i)]
    /\ pc' = "filter"
    /\ UNCHANGED <<db, currentHour, usersForAnalysis, usersForEmail, idx, inflight,
                   apiCalls, apiResult, mailCalls, mailResult, writes>>
    /\ UNCHANGED unusedInTick

\* lines 439-441, 531-533: the select resolves with an error (or rejects);
\* the error is thrown to the outer catch, which logs it and returns
FetchUsersFail ==
    /\ pc = "fetch"
    /\ aborted' = TRUE
    /\ pc' = "idle"
    /\ UNCHANGED <<db, currentHour, allUsers, usersForAnalysis, usersForEmail, idx,
                   inflight, apiCalls, apiResult, mailCalls, mailResult, writes>>
    /\ UNCHANGED unusedInTick

emailPassUntouched == <<usersForEmail, mailCalls, mailResult>>

\* lines 38-42: runWorkflowForUser returns null before any call
SkipsForDescription(user) == ~user.business_description

\* the auth_id check left out
SkipsForAuthIdNever(user) == FALSE

\* lines 49-54, 66-83: the thrown Error is caught and null returned
SkipsForAuthId(user) == user.business_description /\ ~user.auth_id

\* lines 478-480, 34-57, 493-495: a due user lacking a prerequisite
AnalysisSkip ==
    /\ pc = "analysis"
    /\ idx <= Len(usersForAnalysis)
    /\ LET user == usersForAnalysis[idx] IN
          /\ SkipsForDescription(user) \/ SkipsForAuthId(user)
          /\ apiResult' = [apiResult EXCEPT ![user.id] =
                              [status |-> "skipped", body |-> NullBody]]
    /\ idx' = idx + 1
    /\ UNCHANGED <<db, pc, currentHour, allUsers, usersForAnalysis, inflight, apiCalls,
                   writes, aborted>>
    /\ UNCHANGED emailPassUntouched
    /\ UNCHANGED unusedInTick

\* api.post invoked without being awaited: the loop moves on to the next
\* user while the call is pending
AnalysisCallNotAwaited ==
    /\ pc = "analysis"
    /\ idx <= Len(usersForAnalysis)
    /\ LET user == usersForAnalysis[idx] IN
          /\ ~SkipsForDescription(user)
          /\ ~SkipsForAuthId(user)
          /\ apiCalls' = apiCalls \cup {user.id}
    /\ inflight' = "api"
    /\ idx' = idx + 1
    /\ UNCHANGED <<db, pc, currentHour, allUsers, usersForAnalysis, apiResult, writes,
                   aborted>>
    /\ UNCHANGED emailPassUntouched
    /\ UNCHANGED unusedInTick

\* lines 478-480, 34-62: api.post is invoked and awaited
AnalysisCall ==
    /\ pc = "analysis"
    /\ idx <= Len(usersForAnalysis)
    /\ LET user == usersForAnalysis[idx] IN
          /\ ~SkipsForDescription(user)
          /\ ~SkipsForAuthId(user)
          /\ apiCalls' = apiCalls \cup {user.id}
    /\ inflight' = "api"
    /\ pc' = "analysisWait"
    /\ UNCHANGED <<db, currentHour, allUsers, usersForAnalysis, idx, apiResult, writes,
                   aborted>>
    /\ UNCHANGED emailPassUntouched
    /\ UNCHANGED unusedInTick

\* an update() call: the columns it sets, the values it sets them to, and
\* whether the update took effect on the row
LastRunWrite(id) ==
    [user |-> id, columns |-> {"last_workflow_run"}, results |-> NullBody,
     ready |-> FALSE, took |-> TRUE]

StoreWrite(id, body, took) ==
    [user |-> id, columns |-> {"last_analysis_results", "analysis_ready_for_email"},
     results |-> body, ready |-> TRUE, took |-> took]

EmailSentWrite(id, took) ==
    [user |-> id, columns |-> {"last_email_sent", "analysis_ready_for_email"},
     results |-> NullBody, ready |-> FALSE, took |-> took]

\* the rows after lines 485-491; an update that fails leaves the row as it was
AfterStore(id, body, took) ==
    IF took
    THEN [db EXCEPT ![id].last_analysis_results = body,
                    ![id].analysis_ready_for_email = TRUE]
    ELSE db

\* lines 64-65, 482-495: the call resolves 2xx and response.data is returned
AnalysisResponse ==
    /\ pc = "analysisWait"
    /\ LET user == usersForAnalysis[idx] IN
       \E body \in ResponseBodies, took \in BOOLEAN :
          /\ apiResult' = [apiResult EXCEPT ![user.id] = [status |-> "ok", body |-> body]]
          /\ IF NonEmptyResult(body)
             THEN /\ writes' = writes \cup {LastRunWrite(user.id), StoreWrite(user.id, body, took)}
                  /\ db' = AfterStore(user.id, body, took)
             ELSE UNCHANGED <<writes, db>>
    /\ inflight' = NoCall
    /\ pc' = "analysis"
    /\ idx' = idx + 1
    /\ UNCHANGED <<currentHour, allUsers, usersForAnalysis, apiCalls, aborted>>
    /\ UNCHANGED emailPassUntouched
    /\ UNCHANGED unusedInTick

\* lines 66-84: every branch of the catch logs and returns null
CaughtResult(failure) == [status |-> "failed", body |-> NullBody]

\* runWorkflowForUser without its try/catch: the rejection reaches the outer
\* catch of runScheduledWorkflows and ends the tick
AnalysisFailureUncaught ==
    /\ pc = "analysisWait"
    /\ LET user == usersForAnalysis[idx] IN
       \E failure \in CallFailures :
          apiResult' = [apiResult EXCEPT ![user.id] = CaughtResult(failure)]
    /\ inflight' = NoCall
    /\ aborted' = TRUE
    /\ pc' = "idle"
    /\ UNCHANGED <<db, currentHour, allUsers, usersForAnalysis, idx, apiCalls, writes>>
    /\ UNCHANGED emailPassUntouched
    /\ UNCHANGED unusedInTick

\* lines 66-84, 493-495: the call rejects; the catch logs and returns null
AnalysisFailure ==
    /\ pc = "analysisWait"
    /\ LET user == usersForAnalysis[idx] IN
       \E failure \in CallFailures :
          apiResult' = [apiResult EXCEPT ![user.id] = CaughtResult(failure)]
    /\ inflight' = NoCall
    /\ pc' = "analysis"
    /\ idx' = idx + 1
    /\ UNCHANGED <<db, currentHour, allUsers, usersForAnalysis, apiCalls, writes, aborted>>
    /\ UNCHANGED emailPassUntouched
    /\ UNCHANGED unusedInTick

\* the email loop run over the rows that are ready once the analysis loop is
\* over, read again from the table
AnalysisDoneReload ==
    /\ pc = "analysis"
    /\ idx > Len(usersForAnalysis)
    /\ pc' = "email"
    /\ idx' = 1
    /\ usersForEmail' = SelectSeq([i \in 1 .. NumUsers |-> StoredRow(i)],
                                  LAMBDA u : u.analysis_ready_for_email)
    /\ UNCHANGED <<db, currentHour, allUsers, usersForAnalysis, inflight, apiCalls,
                   apiResult, writes, aborted, mailCalls, mailResult>>
    /\ UNCHANGED unusedInTick

\* lines 496-499: the analysis loop is over, the email loop starts
AnalysisDone ==
    /\ pc = "analysis"
    /\ idx > Len(usersForAnalysis)
    /\ pc' = "email"
    /\ idx' = 1
    /\ UNCHANGED <<db, currentHour, allUsers, usersForAnalysis, inflight, apiCalls,
                   apiResult, writes, aborted>>
    /\ UNCHANGED emailPassUntouched
    /\ UNCHANGED unusedInTick

analysisPassUntouched == <<usersForAnalysis, apiCalls, apiResult>>

\* the gate without the ready flag
EmailGateWithoutFlag(user) == NonEmptyResult(user.last_analysis_results)

\* line 502
EmailGate(user) ==
    /\ user.analysis_ready_for_email
    /\ NonEmptyResult(user.last_analysis_results)

\* line 319: `const { data } = analysisResults`
dataOf(analysisResults) ==
    IF analysisResults.shape = "wrapped" THEN analysisResults.payload ELSE NoPayload

\* lines 319-326: what the email is rendered from
Rendered(user, analysisResults) ==
    [ user                  |-> user.id,
      queriesCount          |-> dataOf(analysisResults).searchQueries,
      videosCount           |-> dataOf(analysisResults).videosCount,
      marketingStrategyData |-> dataOf(analysisResults).marketingStrategy ]

\* lines 499-502, 519-527: the gate is closed
EmailGateSkip ==
    /\ pc = "email"
    /\ idx <= Len(usersForEmail)
    /\ LET user == usersForEmail[idx] IN
          /\ ~EmailGate(user)
          /\ mailResult' = [mailResult EXCEPT ![user.id] = "gated"]
    /\ idx' = idx + 1
    /\ UNCHANGED <<db, pc, currentHour, allUsers, usersForEmail, inflight, mailCalls,
                   writes, aborted>>
    /\ UNCHANGED analysisPassUntouched
    /\ UNCHANGED unusedInTick

\* lines 505, 314-317, 516-518: sendAnalysisEmail returns false at once
EmailNoAddress ==
    /\ pc = "email"
    /\ idx <= Len(usersForEmail)
    /\ LET user == usersForEmail[idx] IN
          /\ EmailGate(user)
          /\ ~user.email
          /\ mailResult' = [mailResult EXCEPT ![user.id] = "noAddress"]
    /\ idx' = idx + 1
    /\ UNCHANGED <<db, pc, currentHour, allUsers, usersForEmail, inflight, mailCalls,
                   writes, aborted>>
    /\ UNCHANGED analysisPassUntouched
    /\ UNCHANGED unusedInTick

\* lines 503-505, 319-378: the email is rendered, sendTransacEmail awaited
EmailCall ==
    /\ pc = "email"
    /\ idx <= Len(usersForEmail)
    /\ LET user == usersForEmail[idx] IN
          /\ EmailGate(user)
          /\ user.email
          /\ mailCalls' = mailCalls \cup {Rendered(user, user.last_analysis_results)}
    /\ inflight' = "mail"
    /\ pc' = "emailWait"
    /\ UNCHANGED <<db, currentHour, allUsers, usersForEmail, idx, mailResult, writes,
                   aborted>>
    /\ UNCHANGED analysisPassUntouched
    /\ UNCHANGED unusedInTick

\* the status update without the reset of the flag
AfterEmailSentKeepsFlag(id, took) == db

\* the rows after lines 508-514
AfterEmailSent(id, took) ==
    IF took
    THEN [db EXCEPT ![id].analysis_ready_for_email = FALSE]
    ELSE db

\* lines 378-380, 507-515: the transport accepted the email
EmailSent ==
    /\ pc = "emailWait"
    /\ LET user == usersForEmail[idx] IN
       \E took \in BOOLEAN :
          /\ mailResult' = [mailResult EXCEPT ![user.id] = "sent"]
          /\ writes' = writes \cup {EmailSentWrite(user.id, took)}
          /\ db' = AfterEmailSent(user.id, took)
    /\ inflight' = NoCall
    /\ pc' = "email"
    /\ idx' = idx + 1
    /\ UNCHANGED <<currentHour, allUsers, usersForEmail, mailCalls, aborted>>
    /\ UNCHANGED analysisPassUntouched
    /\ UNCHANGED unusedInTick

\* the status update made whatever sendAnalysisEmail returned
EmailFailureStillResets ==
    /\ pc = "emailWait"
    /\ LET user == usersForEmail[idx] IN
       \E took \in BOOLEAN :
          /\ mailResult' = [mailResult EXCEPT ![user.id] = "failed"]
          /\ writes' = writes \cup {EmailSentWrite(user.id, took)}
          /\ db' = AfterEmailSent(user.id, took)
    /\ inflight' = NoCall
    /\ pc' = "email"
    /\ idx' = idx + 1
    /\ UNCHANGED <<currentHour, allUsers, usersForEmail, mailCalls, aborted>>
    /\ UNCHANGED analysisPassUntouched
    /\ UNCHANGED unusedInTick

\* lines 381-384, 516-518: the transport rejected; false is returned
EmailFailure ==
    /\ pc = "emailWait"
    /\ LET user == usersForEmail[idx] IN
          mailResult' = [mailResult EXCEPT ![user.id] = "failed"]
    /\ inflight' = NoCall
    /\ pc' = "email"
    /\ idx' = idx + 1
    /\ UNCHANGED <<db, currentHour, allUsers, usersForEmail, mailCalls, writes, aborted>>
    /\ UNCHANGED analysisPassUntouched
    /\ UNCHANGED unusedInTick

\* lines 528-530: the email loop is over, the tick returns
EmailDone ==
    /\ pc = "email"
    /\ idx > Len(usersForEmail)
    /\ pc' = "idle"
    /\ UNCHANGED <<db, currentHour, allUsers, usersForEmail, idx, inflight, mailCalls,
                   mailResult, writes, aborted>>
    /\ UNCHANGED analysisPassUntouched
    /\ UNCHANGED unusedInTick

Next ==
    \/ StartTick
    \/ FetchUsersOk
    \/ FetchUsersFail
    \/ FilterStep
    \/ AnalysisSkip
    \/ AnalysisCall
    \/ AnalysisResponse
    \/ AnalysisFailure
    \/ AnalysisDone
    \/ EmailGateSkip
    \/ EmailNoAddress
    \/ EmailCall
    \/ EmailSent
    \/ EmailFailure
    \/ EmailDone

Spec == Init /\ [][Next]_vars

-----------------------------------------------------------------------------
(* Strings of the formatters *)

(* A string is a sequence of lexemes, each lexeme the characters it stands  *)
(* for; the lexemes are the character groups the formatters' patterns tell  *)
(* apart. An HTML fragment is a sequence of lexemes, tags included.         *)

\* the two characters backslash and n, as the patterns /\\n/ and '\\n- ' read them
EscapedNewline == "\\n"

BulletDash == "- "

Space == " "

\* a bold marker, where no single asterisk is told apart
Bold == "**"

Star == "*"

DoubleDash == "--"

\* digits only
Digits == "2024"

Rule == "---"

\* a digit and a dot
Numeral == "1."

\* word characters and a colon
Label == "Key:"

\* words: one character, one character, several characters
Words == {"a", "b"}

LongWord == "Theme"

\* a dash at the end of a string, the space after it trimmed away
Dash == "-"

\* the number of characters of a lexeme and of a string
CharLen(lexeme) ==
    CASE lexeme \in {Space, Star, Dash} \cup Words -> 1
      [] lexeme \in {EscapedNewline, BulletDash, Bold, DoubleDash, Numeral} -> 2
      [] lexeme = Rule -> 3
      [] lexeme \in {Digits, Label} -> 4
      [] lexeme = LongWord -> 5

RECURSIVE Length(_)
Length(s) == IF s = <<>> THEN 0 ELSE CharLen(Head(s)) + Length(Tail(s))

RECURSIVE Concat(_)
Concat(seqs) == IF seqs = <<>> THEN <<>> ELSE Head(seqs) \o Concat(Tail(seqs))

\* the characters of [\w\s()] among the lexemes
WordClass == Words \cup {LongWord, Digits, Space}

\* a JavaScript value: a string, an array of strings, or something else
Str(text) == [type |-> "string", text |-> text, items |-> <<>>]

Arr(items) == [type |-> "array", text |-> <<>>, items |-> items]

Undefined == [type |-> "undefined", text |-> <<>>, items |-> <<>>]

SomeNumber == [type |-> "number", text |-> <<>>, items |-> <<>>]

\* a string that is the JSON text of an array of strings, given by the array
JsonOf(items) == [type |-> "json", text |-> <<>>, items |-> items]

\* every string of at most n lexemes of the alphabet
Strings(alphabet, n) == UNION {[1 .. k -> alphabet] : k \in 0 .. n}

\* !str.trim()
IsBlank(s) == \A i \in 1 .. Len(s) : s[i] = Space

\* String.prototype.trim: the white space at both ends goes, the space of a
\* final "- " with it
Trim(s) ==
    IF IsBlank(s)
    THEN <<>>
    ELSE LET first == CHOOSE i \in 1 .. Len(s) :
                         s[i] # Space /\ \A j \in 1 .. (i - 1) : s[j] = Space
             last  == CHOOSE i \in 1 .. Len(s) :
                         s[i] # Space /\ \A j \in (i + 1) .. Len(s) : s[j] = Space
         IN  IF s[last] = BulletDash
             THEN SubSeq(s, first, last - 1) \o <<Dash>>
             ELSE SubSeq(s, first, last)

\* replace(/x/g, '') and replace(/x/g, y) for a lexeme x
RemoveAll(s, lexeme) == SelectSeq(s, LAMBDA t : t # lexeme)

\* replace(/\*\*/g, ''): asterisks go in pairs from the left, the odd one of
\* a run stays
RECURSIVE RemoveStarPairs(_)
RemoveStarPairs(s) ==
    IF s = <<>>
    THEN <<>>
    ELSE IF Len(s) >= 2 /\ s[1] = Star /\ s[2] = Star
         THEN RemoveStarPairs(SubSeq(s, 3, Len(s)))
         ELSE <<Head(s)>> \o RemoveStarPairs(Tail(s))

RemoveBold(s) ==
    RemoveStarPairs(Concat([i \in 1 .. Len(s) |->
                               IF s[i] = Bold THEN <<Star, Star>> ELSE <<s[i]>>]))

ReplaceAll(s, lexeme, by) == [i \in 1 .. Len(s) |-> IF s[i] = lexeme THEN by ELSE s[i]]

\* indexOf('\\n- '): the position of the first delimiter, 0 when there is none
IndexOfDelimiter(s) ==
    IF \E i \in 1 .. (Len(s) - 1) : s[i] = EscapedNewline /\ s[i + 1] = BulletDash
    THEN CHOOSE i \in 1 .. (Len(s) - 1) :
            /\ s[i] = EscapedNewline /\ s[i + 1] = BulletDash
            /\ \A j \in 1 .. (i - 1) : ~(s[j] = EscapedNewline /\ s[j + 1] = BulletDash)
    ELSE 0

\* split('\\n- ')
RECURSIVE SplitOnDelimiter(_)
SplitOnDelimiter(s) ==
    IF IndexOfDelimiter(s) = 0
    THEN <<s>>
    ELSE <<SubSeq(s, 1, IndexOfDelimiter(s) - 1)>>
            \o SplitOnDelimiter(SubSeq(s, IndexOfDelimiter(s) + 2, Len(s)))

\* lines 106-108
cleanListItemText(text) ==
    LET unbulleted == IF text # <<>> /\ text[1] = BulletDash THEN Tail(text) ELSE text
    IN  Trim(ReplaceAll(unbulleted, EscapedNewline, Space))

\* the length of the longest prefix of s made of lexemes of the class
PrefixIn(s, class) ==
    CHOOSE k \in 0 .. Len(s) :
       /\ \A j \in 1 .. k : s[j] \in class
       /\ k < Len(s) => s[k + 1] \notin class

\* line 114: replace(/^\s*\d\.\s*([\w\s()]+:)?/i, '')
StripLeadingNumeral(s) ==
    LET lead == PrefixIn(s, {Space}) IN
    IF lead < Len(s) /\ s[lead + 1] = Numeral
    THEN LET rest == SubSeq(s, lead + 2, Len(s))
             run  == PrefixIn(rest, WordClass)
         IN  IF run < Len(rest) /\ rest[run + 1] = Label
             THEN SubSeq(rest, run + 2, Len(rest))
             ELSE SubSeq(rest, PrefixIn(rest, {Space}) + 1, Len(rest))
    ELSE s

\* <li>item</li> for every item, in order
RECURSIVE ListItems(_)
ListItems(items) ==
    IF items = <<>>
    THEN <<>>
    ELSE <<"<li>">> \o Head(items) \o <<"</li>">> \o ListItems(Tail(items))

-----------------------------------------------------------------------------
(* createListHtml *)

\* the titles createListHtml is called with (lines 265-271) and toLowerCase
ListTitles == {"Observations", "Key Trend Takeaways", "Technical Specifications",
               "Posting Frequency"}

LowerTitle(title) ==
    CASE title = "Observations"             -> "observations"
      [] title = "Key Trend Takeaways"      -> "key trend takeaways"
      [] title = "Technical Specifications" -> "technical specifications"
      [] title = "Posting Frequency"        -> "posting frequency"

\* lines 113-115
CleanedStr(text) ==
    Trim(RemoveAll(StripLeadingNumeral(RemoveBold(text)), Rule))

\* lines 117-119
ItemsOf(cleanedStr) ==
    LET parts == SplitOnDelimiter(cleanedStr) IN
    SelectSeq([i \in 1 .. Len(parts) |-> cleanListItemText(parts[i])],
              LAMBDA item : item # <<>>)

\* the paragraph taken whenever at most one item is left
RendersAsParagraphAtMostOne(items, cleanedStr) == Len(items) <= 1

\* line 121
RendersAsParagraph(items, cleanedStr) ==
    \/ Len(items) = 0
    \/ Len(items) = 1 /\ IndexOfDelimiter(cleanedStr) = 0

\* lines 110-134
createListHtml(str, title) ==
    IF str.type # "string" \/ IsBlank(str.text)
    THEN <<"<p>", "No ", LowerTitle(title), " provided.", "</p>">>
    ELSE LET cleanedStr == CleanedStr(str.text)
             items      == ItemsOf(cleanedStr)
         IN  IF RendersAsParagraph(items, cleanedStr)
             THEN <<"<p>">> \o ReplaceAll(cleanedStr, EscapedNewline, "<br>") \o <<"</p>">>
             ELSE <<"<ul>">> \o ListItems(items) \o <<"</ul>">>

\* the tick's variables, which no formatter touches
FormatterRest ==
    /\ hourCycle = "h23"
    /\ profile = NoProfiles
    /\ db = FreshDb
    /\ currentHour = 0
    /\ allUsers = <<>>
    /\ usersForAnalysis = <<>>
    /\ usersForEmail = <<>>
    /\ idx = 1
    /\ inflight = NoCall
    /\ FreshLogs
    /\ argLocalHour = NoHour
    /\ argTimezone = NoZone
    /\ ret = [hour |-> NoHour, path |-> "none"]

unusedInFormatter ==
    <<hourCycle, profile, db, currentHour, allUsers, usersForAnalysis, usersForEmail,
      idx, inflight, apiCalls, apiResult, mailCalls, mailResult, writes, aborted,
      argLocalHour, argTimezone, ret>>

ListAlphabet == {EscapedNewline, BulletDash, Space, Bold, Rule, Numeral, Label} \cup Words

ListInputs ==
    {Str(s) : s \in Strings(ListAlphabet, MaxLen)} \cup {Undefined, SomeNumber}

InitList ==
    /\ input \in {[str |-> v, title |-> t] : v \in ListInputs, t \in ListTitles}
    /\ output = NoOutput
    /\ pc = "call"
    /\ FormatterRest

CallCreateListHtml ==
    /\ pc = "call"
    /\ output' = createListHtml(input.str, input.title)
    /\ pc' = "returned"
    /\ UNCHANGED input
    /\ UNCHANGED unusedInFormatter

NextList == CallCreateListHtml

SpecList == InitList /\ [][NextList]_vars

-----------------------------------------------------------------------------
(* formatContentThemesHtml *)

ThemesPlaceholder == <<"<p>", "No specific themes provided.", "</p>">>

\* line 176: replace(/^\s*\*\s*/, '')
StripLeadingStar(s) ==
    LET lead == PrefixIn(s, {Space}) IN
    IF lead < Len(s) /\ s[lead + 1] = Star
    THEN LET rest == SubSeq(s, lead + 2, Len(s))
         IN  SubSeq(rest, PrefixIn(rest, {Space}) + 1, Len(rest))
    ELSE s

\* line 186: replace(/^\s*[\d.]*\s*\*\s*/, '')
StripLeadingOrdinalStar(s) ==
    LET lead    == PrefixIn(s, {Space})
        afterWs == SubSeq(s, lead + 1, Len(s))
        ordinal == PrefixIn(afterWs, {Digits, Numeral})
        afterNo == SubSeq(afterWs, ordinal + 1, Len(afterWs))
        gap     == PrefixIn(afterNo, {Space})
    IN  IF gap < Len(afterNo) /\ afterNo[gap + 1] = Star
        THEN LET rest == SubSeq(afterNo, gap + 2, Len(afterNo))
             IN  SubSeq(rest, PrefixIn(rest, {Space}) + 1, Len(rest))
        ELSE s

\* line 176: the cleaning of a fragment of the split
PreCleanTheme(theme) == Trim(RemoveBold(StripLeadingStar(theme)))

\* lines 186-189
CleanTheme(theme) ==
    LET unbold == RemoveBold(StripLeadingOrdinalStar(theme))
        unbulleted == IF unbold # <<>> /\ unbold[1] = BulletDash THEN Tail(unbold)
                      ELSE unbold
    IN  Trim(unbulleted)

\* /^\d+\.$/
IsBareOrdinal(s) ==
    /\ s # <<>>
    /\ s[Len(s)] = Numeral
    /\ \A i \in 1 .. (Len(s) - 1) : s[i] = Digits

\* line 190 without the length test
KeepsThemeOfAnyLength(cleanedTheme) ==
    /\ cleanedTheme # <<>>
    /\ cleanedTheme # <<Star>>
    /\ cleanedTheme # <<DoubleDash>>
    /\ ~IsBareOrdinal(cleanedTheme)

\* line 190
KeepsTheme(cleanedTheme) ==
    /\ cleanedTheme # <<>>
    /\ Length(cleanedTheme) > 1
    /\ cleanedTheme # <<Star>>
    /\ cleanedTheme # <<DoubleDash>>
    /\ ~IsBareOrdinal(cleanedTheme)

\* JSON.parse returns a number for digits, with at most one dot inside them
\* and white space around them, and throws on every other string of lexemes
ParsesAsNumber(text) ==
    LET t == Trim(text) IN
    /\ t # <<>>
    /\ \A i \in 1 .. Len(t) : t[i] \in {Digits, Numeral}
    /\ t[Len(t)] = Digits
    /\ Cardinality({i \in 1 .. Len(t) : t[i] = Numeral}) <= 1

\* lines 175-177
SplitThemes(text) ==
    LET parts == SplitOnDelimiter(text) IN
    SelectSeq([i \in 1 .. Len(parts) |-> PreCleanTheme(parts[i])],
              LAMBDA theme : theme # <<>> /\ theme # <<Star>> /\ theme # <<DoubleDash>>)

\* lines 168-179: the value of `themes` before line 181
ThemesOf(themesInput) ==
    CASE themesInput.type = "array" -> [isArray |-> TRUE, items |-> themesInput.items]
      [] themesInput.type = "json"  -> [isArray |-> TRUE, items |-> themesInput.items]
      [] themesInput.type = "string" ->
            IF ParsesAsNumber(themesInput.text)
            THEN [isArray |-> FALSE, items |-> <<>>]
            ELSE [isArray |-> TRUE, items |-> SplitThemes(themesInput.text)]
      [] OTHER -> [isArray |-> TRUE, items |-> <<>>]

\* lines 167-197
formatContentThemesHtml(themesInput) ==
    LET themes == ThemesOf(themesInput) IN
    IF ~themes.isArray \/ Len(themes.items) = 0
    THEN ThemesPlaceholder
    ELSE LET cleaned == [i \in 1 .. Len(themes.items) |-> CleanTheme(themes.items[i])]
             kept    == SelectSeq(cleaned, KeepsTheme)
         IN  IF kept # <<>>
             THEN <<"<ul>">> \o ListItems(kept) \o <<"</ul>">>
             ELSE ThemesPlaceholder

ThemeAlphabet ==
    {EscapedNewline, BulletDash, Space, Star, DoubleDash, Numeral, Digits, LongWord, "a"}

\* arrays of strings; no element holds an escaped newline
ThemeArrays ==
    UNION {[1 .. k -> Strings(ThemeAlphabet \ {EscapedNewline}, MaxItemLen)] :
              k \in 0 .. MaxItems}

ThemeInputs ==
    {Str(s) : s \in Strings(ThemeAlphabet, MaxLen)}
       \cup {Arr(a) : a \in ThemeArrays}
       \cup {JsonOf(a) : a \in ThemeArrays}
       \cup {Undefined, SomeNumber}

InitThemes ==
    /\ input \in ThemeInputs
    /\ output = NoOutput
    /\ pc = "call"
    /\ FormatterRest

CallFormatContentThemesHtml ==
    /\ pc = "call"
    /\ output' = formatContentThemesHtml(input)
    /\ pc' = "returned"
    /\ UNCHANGED input
    /\ UNCHANGED unusedInFormatter

NextThemes == CallFormatContentThemesHtml

SpecThemes == InitThemes /\ [][NextThemes]_vars

-----------------------------------------------------------------------------
(* formatHashtagStrategyHtml *)

\* line 204
sectionTitles == <<"Primary (Niche):", "Secondary (Trending/Regional):", "Broad Appeal:">>

IsSectionTitle(lexeme) == \E i \in 1 .. Len(sectionTitles) : sectionTitles[i] = lexeme

HashtagPlaceholder == <<"<p>", "No hashtag strategy provided.", "</p>">>

NoHashtagsListed == <<"<p>", "No specific hashtags listed.", "</p>">>

\* currentTitle = null
NoTitle == "null"

\* the opening of a parenthetical example, in two spellings
Example == "(e.g.,"

ExampleUpper == "(E.g.,"

\* toLowerCase, lexeme by lexeme
LowerLexeme(lexeme) ==
    CASE lexeme = ExampleUpper     -> Example
      [] lexeme = sectionTitles[1] -> "primary (niche):"
      [] lexeme = sectionTitles[2] -> "secondary (trending/regional):"
      [] lexeme = sectionTitles[3] -> "broad appeal:"
      [] lexeme = LongWord         -> "theme"
      [] OTHER                     -> lexeme

LowerCase(s) == [i \in 1 .. Len(s) |-> LowerLexeme(s[i])]

\* split('\\n')
RECURSIVE SplitOnNewline(_)
SplitOnNewline(s) ==
    IF \E i \in 1 .. Len(s) : s[i] = EscapedNewline
    THEN LET at == CHOOSE i \in 1 .. Len(s) :
                      /\ s[i] = EscapedNewline
                      /\ \A j \in 1 .. (i - 1) : s[j] # EscapedNewline
         IN  <<SubSeq(s, 1, at - 1)>> \o SplitOnNewline(SubSeq(s, at + 1, Len(s)))
    ELSE <<s>>

\* lines 205-207: the walk starts with no section open
WalkStart ==
    [currentTitle |-> NoTitle, currentHashtags |-> <<>>, html |-> <<>>,
     foundContent |-> FALSE]

\* a section written out only when it has hashtags
FlushedOnlyWithHashtags(walk) ==
    IF walk.currentTitle # NoTitle /\ Len(walk.currentHashtags) > 0
    THEN [walk EXCEPT !.html = @ \o <<"<h4>", walk.currentTitle, "</h4>", "<ul>">>
                                 \o ListItems(walk.currentHashtags) \o <<"</ul>">>,
                      !.foundContent = TRUE]
    ELSE walk

\* lines 214-221 and 245-252: the open section is written out
Flushed(walk) ==
    IF walk.currentTitle # NoTitle /\ Len(walk.currentHashtags) > 0
    THEN [walk EXCEPT !.html = @ \o <<"<h4>", walk.currentTitle, "</h4>", "<ul>">>
                                 \o ListItems(walk.currentHashtags) \o <<"</ul>">>,
                      !.foundContent = TRUE]
    ELSE IF walk.currentTitle # NoTitle
         THEN [walk EXCEPT !.html = @ \o <<"<h4>", walk.currentTitle, "</h4>">>
                                      \o NoHashtagsListed]
         ELSE walk

\* line 235: /^\s*\d\.\s*$/
IsLoneNumeral(line) == Trim(line) = <<Numeral>>

\* lines 210-241: one line of the walk
AfterLine(walk, rawLine) ==
    LET line == Trim(rawLine) IN
    IF line # <<>> /\ IsSectionTitle(line[1])
    THEN LET contentAfterTitle == Trim(Tail(line)) IN
         [Flushed(walk) EXCEPT
             !.currentTitle = line[1],
             !.currentHashtags =
                 IF contentAfterTitle # <<>> /\ contentAfterTitle[1] = BulletDash
                 THEN <<cleanListItemText(contentAfterTitle)>>
                 ELSE <<>>]
    ELSE IF /\ walk.currentTitle # NoTitle
            /\ line # <<>>
            /\ line[1] # Rule
            /\ ~IsLoneNumeral(line)
            /\ LowerCase(line) # <<"(e. g.,">>
            /\ LowerCase(line) # <<Example>>
            /\ line[1] = BulletDash
         THEN [walk EXCEPT !.currentHashtags = Append(@, cleanListItemText(line))]
         ELSE walk

\* line 209: forEach over the lines
RECURSIVE Walked(_, _)
Walked(walk, lines) ==
    IF lines = <<>> THEN walk ELSE Walked(AfterLine(walk, Head(lines)), Tail(lines))

\* lines 199-255
formatHashtagStrategyHtml(str) ==
    IF str.type # "string" \/ IsBlank(str.text)
    THEN HashtagPlaceholder
    ELSE LET cleanedStr == RemoveBold(str.text)
             final      == Flushed(Walked(WalkStart, SplitOnNewline(cleanedStr)))
         IN  IF final.foundContent \/ \E i \in 1 .. Len(final.html) : final.html[i] = "<h4>"
             THEN final.html
             ELSE HashtagPlaceholder

\* the lines a hashtag strategy is made of
HashtagLines ==
    { <<>>,
      <<sectionTitles[1]>>,
      <<sectionTitles[1], Space, BulletDash, "a">>,
      <<Bold, sectionTitles[2], Bold, Space, "b">>,
      <<sectionTitles[3], BulletDash>>,
      <<Space, BulletDash, "b", Space>>,
      <<BulletDash, LongWord>>,
      <<BulletDash>>,
      <<"a">>,
      <<Rule>>,
      <<Numeral>>,
      <<ExampleUpper>> }

RECURSIVE JoinLines(_)
JoinLines(lines) ==
    IF Len(lines) <= 1
    THEN Concat(lines)
    ELSE Head(lines) \o <<EscapedNewline>> \o JoinLines(Tail(lines))

HashtagInputs ==
    {Str(JoinLines(lines)) : lines \in UNION {[1 .. k -> HashtagLines] : k \in 0 .. MaxLines}}
       \cup {Undefined, SomeNumber}

InitHashtag ==
    /\ input \in HashtagInputs
    /\ output = NoOutput
    /\ pc = "call"
    /\ FormatterRest

CallFormatHashtagStrategyHtml ==
    /\ pc = "call"
    /\ output' = formatHashtagStrategyHtml(input)
    /\ pc' = "returned"
    /\ UNCHANGED input
    /\ UNCHANGED unusedInFormatter

NextHashtag == CallFormatHashtagStrategyHtml

SpecHashtag == InitHashtag /\ [][NextHashtag]_vars

-----------------------------------------------------------------------------
(* formatSampleScriptHtml *)

VisualCuesLabel == "Visual Cues:"

VoiceoverLabel == "Voiceover/Script:"

NotSpecified == <<"<p>", "Not specified.", "</p>">>

\* the position of the first occurrence of a lexeme at or after `from`, 0
\* when there is none
FirstAt(s, lexeme, from) ==
    IF \E i \in from .. Len(s) : s[i] = lexeme
    THEN CHOOSE i \in from .. Len(s) :
            s[i] = lexeme /\ \A j \in from .. (i - 1) : s[j] # lexeme
    ELSE 0

\* line 141: group 1 of /Visual Cues:([\s\S]*?)(Voiceover\/Script:|$)/i
VisualCuesGroup(s) ==
    LET at  == FirstAt(s, VisualCuesLabel, 1)
        end == FirstAt(s, VoiceoverLabel, at + 1)
    IN  IF at = 0 THEN <<>>
        ELSE IF end = 0 THEN SubSeq(s, at + 1, Len(s))
        ELSE SubSeq(s, at + 1, end - 1)

\* line 142: group 1 of /Voiceover\/Script:([\s\S]*)/i
VoiceoverGroup(s) ==
    LET at == FirstAt(s, VoiceoverLabel, 1) IN
    IF at = 0 THEN <<>> ELSE SubSeq(s, at + 1, Len(s))

\* lines 136-165; the strings hold no quotation mark, so line 159's
\* replace(/\*"/g, '"') changes nothing
formatSampleScriptHtml(scriptStr) ==
    IF scriptStr.type # "string" \/ IsBlank(scriptStr.text)
    THEN <<"<p>", "No sample script provided.", "</p>">>
    ELSE LET cleanedScriptStr == RemoveBold(scriptStr.text)
             visual == VisualCuesGroup(cleanedScriptStr)
             voice  == VoiceoverGroup(cleanedScriptStr)
         IN  (IF ~IsBlank(visual)
              THEN <<"<h4>", VisualCuesLabel, "</h4>", "<ul>">>
                      \o ListItems(ItemsOf(visual)) \o <<"</ul>">>
              ELSE <<"<h4>", VisualCuesLabel, "</h4>">> \o NotSpecified)
             \o
             (IF ~IsBlank(voice)
              THEN <<"<h4>", VoiceoverLabel, "</h4>", "<p>">>
                      \o Trim(ReplaceAll(voice, EscapedNewline, "<br>")) \o <<"</p>">>
              ELSE <<"<h4>", VoiceoverLabel, "</h4>">> \o NotSpecified)

-----------------------------------------------------------------------------
(* formatMarketingStrategyToHtml *)

Heading == <<"<h2>", "Marketing Strategy & Content Ideas", "</h2>">>

\* line 260
EmptyDocumentFragment ==
    Heading \o <<"<p>", "No detailed strategy information available.", "</p>">>

\* line 287
NothingSurvivedFragment ==
    Heading \o <<"<p>", "No detailed strategy information available at this time.", "</p>">>

\* lines 264-272
sections ==
    << [title |-> "Observations",             key |-> "observations",            processor |-> "list"],
       [title |-> "Key Trend Takeaways",      key |-> "keyTakeaways",            processor |-> "list"],
       [title |-> "Sample TikTok Script",     key |-> "sampleScript",            processor |-> "script"],
       [title |-> "Technical Specifications", key |-> "technicalSpecifications", processor |-> "list"],
       [title |-> "General Content Themes",   key |-> "contentThemes",           processor |-> "themes"],
       [title |-> "Hashtag Strategy",         key |-> "hashtagStrategy",         processor |-> "hashtags"],
       [title |-> "Posting Frequency",        key |-> "postingFrequency",        processor |-> "list"] >>

DocumentKeys == {sections[i].key : i \in 1 .. Len(sections)} \cup {"rawContent"}

\* a value in a condition: undefined and '' are falsy, every other string
\* and every array, the empty one too, is truthy
TruthyValue(value) ==
    \/ value.type \in {"array", "json", "number"}
    \/ value.type = "string" /\ value.text # <<>>

\* text of a field in which the words 'not specified' occur
NotSpecifiedText == "Schedule not specified yet."

\* the sentence the trailer starts at
BalancesSentence == "This strategy balances reach and effort."

\* toLowerCase().includes(...) of line 279, lexeme by lexeme: the lexemes in
\* which one of "no information provided", "not specified", "no specific"
\* occurs; no two neighbouring lexemes of a fragment spell one across them
HasSuppressingPhrase(lexeme) ==
    lexeme \in {"Not specified.", "No specific hashtags listed.",
                "No specific themes provided.", NotSpecifiedText}

\* line 279 with "not specified" alone
SuppressedOnlyNotSpecified(sectionHtml) ==
    \E i \in 1 .. Len(sectionHtml) : sectionHtml[i] \in {"Not specified.", NotSpecifiedText}

\* line 279: the fragment is left out
Suppressed(sectionHtml) ==
    \E i \in 1 .. Len(sectionHtml) : HasSuppressingPhrase(sectionHtml[i])

\* line 276
ContentOf(marketingStrategy, key) ==
    IF TruthyValue(marketingStrategy[key])
    THEN marketingStrategy[key]
    ELSE IF key = "observations" THEN marketingStrategy["rawContent"] ELSE Undefined

\* line 278: section.processor(content)
Processed(section, content) ==
    CASE section.processor = "list"     -> createListHtml(content, section.title)
      [] section.processor = "script"   -> formatSampleScriptHtml(content)
      [] section.processor = "themes"   -> formatContentThemesHtml(content)
      [] section.processor = "hashtags" -> formatHashtagStrategyHtml(content)

\* lines 276-284: what one section adds to emailBodyHtml
SectionHtml(marketingStrategy, section) ==
    LET content == ContentOf(marketingStrategy, section.key) IN
    IF TruthyValue(content) /\ ~Suppressed(Processed(section, content))
    THEN <<"<h3>", section.title, "</h3>">> \o Processed(section, content)
    ELSE <<>>

\* the trailer taken from the start of the field
TrailerOfWholeField(postingFrequency) ==
    IF postingFrequency.type = "string"
       /\ FirstAt(postingFrequency.text, BalancesSentence, 1) # 0
    THEN <<"<p>">>
            \o Trim(ReplaceAll(RemoveBold(postingFrequency.text), EscapedNewline, Space))
            \o <<"</p>">>
    ELSE <<>>

\* lines 292-297
TrailerOf(postingFrequency) ==
    IF postingFrequency.type = "string"
       /\ FirstAt(postingFrequency.text, BalancesSentence, 1) # 0
    THEN LET text  == postingFrequency.text
             match == SubSeq(text, FirstAt(text, BalancesSentence, 1), Len(text))
         IN  <<"<p>">> \o Trim(ReplaceAll(RemoveBold(match), EscapedNewline, Space))
                \o <<"</p>">>
    ELSE <<>>

\* the number of "<br>" in the longest prefix of s made of "<br>" and spaces
\* that starts with "<br>", and the length of that prefix
BreakRun(s) ==
    LET len == IF s # <<>> /\ s[1] = "<br>" THEN PrefixIn(s, {"<br>", Space}) ELSE 0
    IN  [len |-> len, breaks |-> Cardinality({i \in 1 .. len : s[i] = "<br>"})]

\* line 300: replace(/(<br>\s*){2,}/g, '<br>')
RECURSIVE CollapseBreaks(_)
CollapseBreaks(s) ==
    IF s = <<>>
    THEN <<>>
    ELSE IF BreakRun(s).breaks >= 2
         THEN <<"<br>">> \o CollapseBreaks(SubSeq(s, BreakRun(s).len + 1, Len(s)))
         ELSE <<Head(s)>> \o CollapseBreaks(Tail(s))

\* line 301: replace(/<p><br><\/p>/g, '')
RECURSIVE RemoveEmptyParagraphs(_)
RemoveEmptyParagraphs(s) ==
    IF s = <<>>
    THEN <<>>
    ELSE IF Len(s) >= 3 /\ SubSeq(s, 1, 3) = <<"<p>", "<br>", "</p>">>
         THEN RemoveEmptyParagraphs(SubSeq(s, 4, Len(s)))
         ELSE <<Head(s)>> \o RemoveEmptyParagraphs(Tail(s))

\* lines 299-301
CleanedUp(emailBodyHtml) ==
    RemoveEmptyParagraphs(CollapseBreaks(ReplaceAll(emailBodyHtml, EscapedNewline, "<br>")))

\* line 259
IsEmptyDocument(marketingStrategy) ==
    \/ ~marketingStrategy.defined
    \/ \A key \in DocumentKeys : marketingStrategy[key].type = "undefined"

\* lines 258-303
formatMarketingStrategyToHtml(marketingStrategy) ==
    IF IsEmptyDocument(marketingStrategy)
    THEN EmptyDocumentFragment
    ELSE LET body == Concat([i \in 1 .. Len(sections) |->
                               SectionHtml(marketingStrategy, sections[i])])
         IN  IF body = <<>>
             THEN NothingSurvivedFragment
             ELSE CleanedUp(Heading \o body
                               \o (IF TruthyValue(marketingStrategy.postingFrequency)
                                   THEN TrailerOf(marketingStrategy.postingFrequency)
                                   ELSE <<>>))

\* the documents: every field absent, blank, or one of a few texts
Documents ==
    [ defined : {TRUE},
      observations :
         {Undefined, Str(<<>>), Str(<<Space>>),
          Str(<<LongWord, EscapedNewline, BulletDash, "a", EscapedNewline, EscapedNewline>>)},
      rawContent :
         {Undefined, Str(<<"b", EscapedNewline, Space, EscapedNewline, "a">>)},
      keyTakeaways :
         {Undefined, Str(<<Space>>), Str(<<"a">>)},
      sampleScript :
         {Undefined, Str(<<Space>>), Str(<<VisualCuesLabel, Space, "a">>),
          Str(<<VoiceoverLabel, Space, "b">>),
          Str(<<VisualCuesLabel, Space, VoiceoverLabel, Space, "b">>),
          Str(<<Bold, VisualCuesLabel, Bold, EscapedNewline, BulletDash, "a",
                VoiceoverLabel, Space, "b">>)},
      technicalSpecifications :
         {Undefined, Str(<<Space>>), Str(<<"a">>)},
      contentThemes :
         {Undefined, Arr(<<>>), Str(<<Space>>), Arr(<< <<LongWord>>, <<"a">> >>)},
      hashtagStrategy :
         {Undefined, Str(<<Space>>), Str(<<"a">>), Str(<<sectionTitles[1]>>),
          Str(<<sectionTitles[1], EscapedNewline, BulletDash, LongWord>>),
          Str(<<sectionTitles[1], EscapedNewline,
                sectionTitles[2], EscapedNewline, BulletDash, LongWord>>)},
      postingFrequency :
         {Undefined, Str(<<Space>>), Str(<<"a">>),
          Str(<<"a", Space, BalancesSentence, EscapedNewline, Bold, "b", Bold>>),
          Str(<<NotSpecifiedText, Space, BalancesSentence>>)} ]

\* marketingStrategy is null
NullDocument ==
    [ defined |-> FALSE, observations |-> Undefined, rawContent |-> Undefined,
      keyTakeaways |-> Undefined, sampleScript |-> Undefined,
      technicalSpecifications |-> Undefined, contentThemes |-> Undefined,
      hashtagStrategy |-> Undefined, postingFrequency |-> Undefined ]

InitAssemble ==
    /\ input \in Documents \cup {NullDocument}
    /\ output = NoOutput
    /\ pc = "call"
    /\ FormatterRest

CallFormatMarketingStrategyToHtml ==
    /\ pc = "call"
    /\ output' = formatMarketingStrategyToHtml(input)
    /\ pc' = "returned"
    /\ UNCHANGED input
    /\ UNCHANGED unusedInFormatter

NextAssemble == CallFormatMarketingStrategyToHtml

SpecAssemble == InitAssemble /\ [][NextAssemble]_vars

-----------------------------------------------------------------------------
(* Claims about convertLocalToUTC *)

PlusFiveZone == "Etc/GMT-5"

\* C7 as stated: for the fixed-offset zone +5 and every localHour in 0..23,
\* convertLocalToUTC returns (localHour - 5 + 24) mod 24.
C7_FixedOffsetPlusFive ==
    (pc = "returned" /\ argTimezone = PlusFiveZone)
        => ret.hour = (argLocalHour - 5 + HoursPerDay) % HoursPerDay

\* the candidates whose rendered hour equals localHour
MatchingCandidates(localHour, tz) ==
    {h \in Hours : hourInUserTimezone(h, tz) = localHour}

\* C8: convertLocalToUTC returns the smallest candidate UTC hour whose hour
\* rendered in the zone equals localHour; when no candidate matches or the
\* zone is rejected it returns localHour unchanged, and it always returns.
C8_FirstMatchOrFallback ==
    pc = "returned" =>
        IF argTimezone \in ValidZones /\ MatchingCandidates(argLocalHour, argTimezone) # {}
        THEN /\ ret.hour \in MatchingCandidates(argLocalHour, argTimezone)
             /\ \A h \in MatchingCandidates(argLocalHour, argTimezone) : ret.hour <= h
             /\ ret.path = "match"
        ELSE /\ ret.hour = argLocalHour
             /\ ret.path \in {"nomatch", "error"}

\* a zone in which the local hour occurs twice today, resolved to the first
C8_WitnessFirstOfTwo ==
    /\ pc = "returned"
    /\ argTimezone \in ValidZones
    /\ Cardinality(MatchingCandidates(argLocalHour, argTimezone)) = 2
    /\ ret.path = "match"

\* the two fallbacks: an hour that does not occur today, a rejected zone
C8_WitnessFallback ==
    /\ pc = "returned"
    /\ ret.path = "nomatch"
    /\ ret.hour = argLocalHour

-----------------------------------------------------------------------------
(* Claims about the due sets *)

PopulationFiltered == pc = "analysis"

InBothSets(user) == InSeq(user, usersForAnalysis) /\ InSeq(user, usersForEmail)

ResolvedWithoutFallback(user) ==
    ConvertTrace(localHourOf(user), timezoneOf(user)).path = "match"

\* C1: after the due-set loop no user whose hour resolved without fallback
\* is in both usersForAnalysis and usersForEmail; a user in both sets had
\* convertLocalToUTC fall back to the local hour.
C1_NotBothUnlessFallback ==
    PopulationFiltered =>
        \A i \in 1 .. Len(allUsers) :
            InBothSets(allUsers[i]) => ~ResolvedWithoutFallback(allUsers[i])

\* a user resolved without fallback who is due for analysis at this hour
C1_Witness ==
    /\ PopulationFiltered
    /\ \E i \in 1 .. Len(allUsers) :
          /\ ResolvedWithoutFallback(allUsers[i])
          /\ InSeq(allUsers[i], usersForAnalysis)
          /\ ~InSeq(allUsers[i], usersForEmail)

\* the local hour and zone the claim reads from a row
StatedLocalHour(user) ==
    IF user.email_time_hour = NoHour THEN DefaultLocalHour ELSE user.email_time_hour

StatedZone(user) ==
    IF user.timezone = NoZone THEN DefaultZone ELSE user.timezone

StatedUtcHour(user) == convertLocalToUTC(StatedLocalHour(user), StatedZone(user))

\* C2 as stated: a user is email-due iff the resolver applied to the stored
\* hour (0 included; 9 only when none is stored) and the stored zone (UTC
\* only when none is stored) equals the current hour, and analysis-due iff
\* that UTC hour minus one, mod 24, equals the current hour.
C2_DueSetsFromStoredHour ==
    PopulationFiltered =>
        \A i \in 1 .. Len(allUsers) :
            LET user == allUsers[i] IN
            /\ InSeq(user, usersForEmail) <=> StatedUtcHour(user) = currentHour
            /\ InSeq(user, usersForAnalysis)
                  <=> (StatedUtcHour(user) - 1 + HoursPerDay) % HoursPerDay = currentHour

-----------------------------------------------------------------------------
(* Claims about the tick *)

\* the select of this tick returned rows
TickRan == allUsers # <<>>

AnalysisPassOver == TickRan /\ pc \in {"email", "emailWait", "idle"}

TickOver == TickRan /\ pc = "idle"

HasAnalysisPrerequisites(user) == user.business_description /\ user.auth_id

\* a body with at least one key
HasKeys(body) == body.shape \in {"flat", "wrapped"}

\* what the analysis pass owes a due user, whatever happened to the others
AnalysisCompleted(user) ==
    /\ apiResult[user.id].status # "none"
    /\ HasAnalysisPrerequisites(user) => user.id \in apiCalls
    /\ (apiResult[user.id].status = "ok" /\ HasKeys(apiResult[user.id].body)) =>
          \E w \in writes :
             /\ w.user = user.id
             /\ w.columns = {"last_analysis_results", "analysis_ready_for_email"}
             /\ w.results = apiResult[user.id].body
             /\ w.ready
             /\ w.took => /\ db[user.id].last_analysis_results = apiResult[user.id].body
                          /\ db[user.id].analysis_ready_for_email

\* what the email pass owes a due user, whatever happened to the others
EmailCompleted(user) ==
    /\ mailResult[user.id] # "none"
    /\ (user.analysis_ready_for_email /\ HasKeys(user.last_analysis_results) /\ user.email)
          => \E c \in mailCalls : c.user = user.id

\* C3: when the analysis call of one analysis-due user fails, every other
\* analysis-due user of the pass still has the analysis invoked and, on
\* success, the result stored and the ready flag set; when the send to one
\* email-due user fails, every other email-due user is still processed.
C3_FailureIsolation ==
    /\ AnalysisPassOver =>
          \A i, j \in 1 .. Len(usersForAnalysis) :
             (i # j /\ apiResult[usersForAnalysis[i].id].status = "failed")
                => AnalysisCompleted(usersForAnalysis[j])
    /\ TickOver =>
          \A i, j \in 1 .. Len(usersForEmail) :
             (i # j /\ mailResult[usersForEmail[i].id] = "failed")
                => EmailCompleted(usersForEmail[j])

\* the first analysis-due user failed and a later one has its result stored
C3_Witness ==
    /\ AnalysisPassOver
    /\ Len(usersForAnalysis) >= 2
    /\ apiResult[usersForAnalysis[1].id].status = "failed"
    /\ apiResult[usersForAnalysis[2].id].status = "ok"
    /\ db[usersForAnalysis[2].id].analysis_ready_for_email
    /\ db[usersForAnalysis[2].id].last_analysis_results = apiResult[usersForAnalysis[2].id].body

WritesFlag(w) == "analysis_ready_for_email" \in w.columns

\* C4: in every step, an update that sets analysis_ready_for_email to true
\* is for a user whose analysis call of this tick returned a body with keys
\* and sets last_analysis_results to that body in the same update; an update
\* that sets it to false is for a user whose email of this tick was sent;
\* and the stored flag changes only by such an update.
C4_FlagWrittenOnlyOnSuccess ==
    [][ /\ \A w \in writes' \ writes :
              WritesFlag(w) =>
                 IF w.ready
                 THEN /\ apiResult'[w.user].status = "ok"
                      /\ HasKeys(apiResult'[w.user].body)
                      /\ "last_analysis_results" \in w.columns
                      /\ w.results = apiResult'[w.user].body
                 ELSE mailResult'[w.user] = "sent"
        /\ \A u \in Users :
              db'[u] # db[u] =>
                 \E w \in writes' \ writes :
                    /\ w.user = u
                    /\ WritesFlag(w)
                    /\ w.took
                    /\ db'[u].analysis_ready_for_email = w.ready
                    /\ w.ready => db'[u].last_analysis_results = w.results
      ]_vars

\* the flag was set in this tick and another user's flag was cleared
C4_Witness ==
    /\ \E w \in writes : WritesFlag(w) /\ w.ready /\ w.took
    /\ \E w \in writes : WritesFlag(w) /\ ~w.ready /\ w.took

\* the row of this tick's population with the given id
RowOf(id) == allUsers[CHOOSE i \in 1 .. Len(allUsers) : allUsers[i].id = id]

\* the gate as the claim states it, for a user id
EmailDueAndReady(id) ==
    \E i \in 1 .. Len(usersForEmail) :
       /\ usersForEmail[i].id = id
       /\ usersForEmail[i].analysis_ready_for_email
       /\ HasKeys(usersForEmail[i].last_analysis_results)

\* C5: the email transport is called for a user only if the user is in
\* usersForEmail and the loaded row has analysis_ready_for_email true and a
\* non-empty last_analysis_results; for every other user there is no
\* transport call and no update of last_email_sent or reset of the flag.
C5_EmailOnlyThroughGate ==
    /\ \A c \in mailCalls : EmailDueAndReady(c.user)
    /\ \A u \in Users : mailResult[u] \in {"sent", "failed"} => EmailDueAndReady(u)
    /\ \A w \in writes :
          ("last_email_sent" \in w.columns \/ (WritesFlag(w) /\ ~w.ready))
             => EmailDueAndReady(w.user)

\* an email went out while another email-due user was held back by the gate
C5_Witness ==
    /\ TickOver
    /\ \E c \in mailCalls : mailResult[c.user] = "sent"
    /\ \E i \in 1 .. Len(usersForEmail) : mailResult[usersForEmail[i].id] = "gated"

\* C6 as stated: the document handed to formatMarketingStrategyToHtml is the
\* marketingStrategy field of the stored response, and the stats are that
\* response's searchQueries length and videosCount, the stored response
\* being of shape {searchQueries, videosCount, marketingStrategy}.
C6_EmailShowsStoredStrategy ==
    \A c \in mailCalls :
       LET stored == RowOf(c.user).last_analysis_results IN
       stored.shape = "flat" =>
          /\ c.marketingStrategyData = stored.payload.marketingStrategy
          /\ c.queriesCount = stored.payload.searchQueries
          /\ c.videosCount = stored.payload.videosCount

\* C9: when the read of the user population fails, the tick ends there: no
\* analysis call, no email and no update is made in that tick.
C9_LoadFailureAbortsTick ==
    aborted =>
       /\ pc = "idle"
       /\ inflight = NoCall
       /\ apiCalls = {}
       /\ mailCalls = {}
       /\ writes = {}
       /\ \A u \in Users : apiResult[u].status = "none" /\ mailResult[u] = "none"

\* the read failed in a tick in which a stored result was waiting to be sent
C9_Witness ==
    /\ aborted
    /\ \E u \in Users :
          /\ db[u].analysis_ready_for_email
          /\ DueForEmail(StoredRow(u), currentHour)

\* C10: an analysis-due user without business description or auth_id causes
\* no analysis call and no update of result, flag or last_workflow_run; an
\* email-due user without email causes no transport call and keeps the ready
\* flag; nothing is raised, and the other users of the pass are processed.
C10_MissingPrerequisiteSkips ==
    /\ \A i \in 1 .. Len(usersForAnalysis) :
          LET user == usersForAnalysis[i] IN
          ~HasAnalysisPrerequisites(user) =>
             /\ user.id \notin apiCalls
             /\ \A w \in writes : w.user # user.id
             /\ db[user.id].analysis_ready_for_email = user.analysis_ready_for_email
             /\ db[user.id].last_analysis_results = user.last_analysis_results
    /\ \A i \in 1 .. Len(usersForEmail) :
          LET user == usersForEmail[i] IN
          ~user.email =>
             /\ \A c \in mailCalls : c.user # user.id
             /\ \A w \in writes : w.user # user.id
             /\ db[user.id].analysis_ready_for_email = user.analysis_ready_for_email
    /\ TickRan => ~aborted
    /\ AnalysisPassOver =>
          \A i \in 1 .. Len(usersForAnalysis) : AnalysisCompleted(usersForAnalysis[i])
    /\ TickOver =>
          \A i \in 1 .. Len(usersForEmail) : EmailCompleted(usersForEmail[i])

\* a user without auth_id was skipped and the next due user was analysed; a
\* ready user without email was passed over
C10_Witness ==
    /\ TickOver
    /\ \E i \in 1 .. Len(usersForAnalysis) :
          /\ ~usersForAnalysis[i].auth_id
          /\ usersForAnalysis[i].business_description
          /\ \E j \in (i + 1) .. Len(usersForAnalysis) :
                usersForAnalysis[j].id \in apiCalls

\* a ready user without email address was passed over with the flag kept
C10_WitnessNoAddress ==
    /\ TickOver
    /\ \E u \in Users : mailResult[u] = "noAddress" /\ db[u].analysis_ready_for_email


-----------------------------------------------------------------------------
(* Claims about the order of the steps of a tick *)

\* calls invoked and not yet returned
PendingApi == {u \in apiCalls : apiResult[u].status = "none"}

PendingMail == {u \in {c.user : c \in mailCalls} : mailResult[u] = "none"}

NothingOfEmailPass ==
    /\ mailCalls = {}
    /\ \A u \in Users : mailResult[u] = "none"
    /\ \A w \in writes : "last_email_sent" \notin w.columns

NothingOfAnalysisPass ==
    /\ apiCalls = {}
    /\ \A u \in Users : apiResult[u].status = "none"
    /\ writes = {}

NotStartedAnalysis(user) ==
    /\ user.id \notin apiCalls
    /\ apiResult[user.id].status = "none"
    /\ \A w \in writes : w.user # user.id

NotStartedEmail(user) ==
    /\ \A c \in mailCalls : c.user # user.id
    /\ mailResult[user.id] = "none"
    /\ \A w \in writes : w.user # user.id

\* C11: in a tick the population is loaded, then both due sets are computed,
\* then the analysis-due users are processed one at a time (a user's call
\* and updates are over before the next user's call starts), and only after
\* the last of them is any email-due user processed, one at a time; at no
\* point are two external calls pending.
C11_SequentialPasses ==
    /\ Cardinality(PendingApi) + Cardinality(PendingMail) <= 1
    /\ pc \in {"idle", "fetch", "filter", "analysis", "email"} =>
          PendingApi = {} /\ PendingMail = {} /\ inflight = NoCall
    /\ pc \in {"fetch", "filter"} =>
          /\ usersForAnalysis = <<>> /\ usersForEmail = <<>>
          /\ NothingOfAnalysisPass
          /\ NothingOfEmailPass
    /\ pc = "fetch" => allUsers = <<>>
    /\ (usersForAnalysis # <<>> \/ usersForEmail # <<>>) => TickRan
    /\ pc \in {"analysis", "analysisWait"} =>
          /\ NothingOfEmailPass
          /\ \A j \in 1 .. Len(usersForAnalysis) :
                /\ j < idx => AnalysisCompleted(usersForAnalysis[j])
                /\ j > idx => NotStartedAnalysis(usersForAnalysis[j])
                /\ (j = idx /\ pc = "analysis") => NotStartedAnalysis(usersForAnalysis[j])
          /\ pc = "analysisWait" =>
                /\ inflight = "api"
                /\ PendingApi = {usersForAnalysis[idx].id}
    /\ pc \in {"email", "emailWait"} =>
          /\ \A j \in 1 .. Len(usersForAnalysis) : AnalysisCompleted(usersForAnalysis[j])
          /\ \A j \in 1 .. Len(usersForEmail) :
                /\ j < idx => EmailCompleted(usersForEmail[j])
                /\ j > idx => NotStartedEmail(usersForEmail[j])
                /\ (j = idx /\ pc = "email") => NotStartedEmail(usersForEmail[j])
          /\ pc = "emailWait" =>
                /\ inflight = "mail"
                /\ PendingMail = {usersForEmail[idx].id}

\* the second analysis-due user's call is pending after the first user's
\* result was stored
C11_Witness ==
    /\ pc = "analysisWait"
    /\ idx = 2
    /\ \E w \in writes : w.user = usersForAnalysis[1].id /\ w.ready /\ w.took


-----------------------------------------------------------------------------
(* Claims about what a failure leaves behind *)

\* the call returned nothing to store: it failed, or its body has no key
AnalysisFailedOrEmpty(id) ==
    \/ apiResult[id].status = "failed"
    \/ apiResult[id].status = "ok" /\ ~HasKeys(apiResult[id].body)

\* the stored row is as it was loaded and no update was issued for it
RowUntouched(user) ==
    /\ db[user.id].last_analysis_results = user.last_analysis_results
    /\ db[user.id].analysis_ready_for_email = user.analysis_ready_for_email
    /\ \A w \in writes : w.user # user.id

FailedUsersUntouched ==
    /\ \A i \in 1 .. Len(usersForAnalysis) :
          LET user == usersForAnalysis[i] IN
          AnalysisFailedOrEmpty(user.id) => RowUntouched(user)
    /\ \A i \in 1 .. Len(usersForEmail) :
          LET user == usersForEmail[i] IN
          mailResult[user.id] = "failed" =>
             /\ RowUntouched(user)
             /\ db[user.id].analysis_ready_for_email

\* C18: a user whose analysis call failed or returned an empty result has
\* last_analysis_results, analysis_ready_for_email and last_workflow_run
\* unchanged; a user whose send failed has analysis_ready_for_email (still
\* true) and last_email_sent unchanged; and no call is made a second time in
\* the tick: a call starts only for a user with no call and no outcome yet,
\* and the loop moves to the next user when a call returns.
C18_FailureLeavesRowAlone ==
    [][ /\ FailedUsersUntouched'
        /\ (pc # "analysisWait" /\ pc' = "analysisWait") =>
              /\ usersForAnalysis[idx].id \notin apiCalls
              /\ apiResult[usersForAnalysis[idx].id].status = "none"
        /\ (pc # "emailWait" /\ pc' = "emailWait") =>
              /\ \A c \in mailCalls : c.user # usersForEmail[idx].id
              /\ mailResult[usersForEmail[idx].id] = "none"
        /\ (pc \in {"analysisWait", "emailWait"} /\ pc' # pc) => idx' = idx + 1
      ]_vars

\* the tick is over with a failed analysis call, an empty result and a
\* failed send
C18_Witness ==
    /\ TickOver
    /\ \E u \in Users : apiResult[u].status = "failed"
    /\ \E u \in Users : mailResult[u] = "failed" /\ db[u].analysis_ready_for_email

C18_WitnessEmptyResult ==
    /\ TickOver
    /\ \E u \in Users : apiResult[u].status = "ok" /\ ~HasKeys(apiResult[u].body)


-----------------------------------------------------------------------------
(* Claims about what the email pass reads *)

\* this tick's analysis pass issued the update storing a result for the user
StoredThisTick(id) ==
    \E w \in writes : w.user = id /\ "last_analysis_results" \in w.columns

\* C19: every email of a tick is decided and rendered from the row loaded at
\* the start of the tick: that row has the ready flag and a result with
\* keys, the rendered figures are read from that row's result, and the user
\* had no analysis call and no result stored in this tick.
C19_EmailFromLoadedRows ==
    \A c \in mailCalls :
       LET loaded == RowOf(c.user)
           stored == RowOf(c.user).last_analysis_results
           data   == IF stored.shape = "wrapped" THEN stored.payload ELSE NoPayload
       IN  /\ loaded.analysis_ready_for_email
           /\ HasKeys(stored)
           /\ c.marketingStrategyData = data.marketingStrategy
           /\ c.queriesCount = data.searchQueries
           /\ c.videosCount = data.videosCount
           /\ c.user \notin apiCalls
           /\ ~StoredThisTick(c.user)

\* an email went out in a tick whose analysis pass stored another user's
\* result and set that user's flag
C19_Witness ==
    /\ \E c \in mailCalls : mailResult[c.user] = "sent"
    /\ \E u \in Users :
          /\ StoredThisTick(u)
          /\ db[u].analysis_ready_for_email
          /\ \A c \in mailCalls : c.user # u


-----------------------------------------------------------------------------
(* Claims about how often a result is emailed *)

\* the update after a send, having taken effect
SentAndRecorded(w) ==
    /\ "last_email_sent" \in w.columns
    /\ w.took

\* C20: in every step, a successful send whose update takes effect leaves
\* the stored ready flag false; a transport call starts only for a user
\* whose stored flag is true and who has had no transport call in this tick;
\* and the stored flag turns from false to true only by the update of a
\* successful analysis. So, the updates taking effect, a stored result is
\* emailed successfully at most once.
C20_EmailedAtMostOnce ==
    [][ /\ \A w \in writes' \ writes :
              SentAndRecorded(w) =>
                 /\ mailResult'[w.user] = "sent"
                 /\ ~db'[w.user].analysis_ready_for_email
        /\ \A c \in mailCalls' \ mailCalls :
              /\ db[c.user].analysis_ready_for_email
              /\ \A earlier \in mailCalls : earlier.user # c.user
              /\ mailResult[c.user] = "none"
        /\ \A u \in Users :
              (~db[u].analysis_ready_for_email /\ db'[u].analysis_ready_for_email) =>
                 /\ apiResult'[u].status = "ok"
                 /\ HasKeys(apiResult'[u].body)
                 /\ db'[u].last_analysis_results = apiResult'[u].body
                 /\ StoreWrite(u, apiResult'[u].body, TRUE) \in writes' \ writes
      ]_vars

\* a result was emailed and the update cleared the flag
C20_Witness ==
    \E u \in Users :
       /\ mailResult[u] = "sent"
       /\ \E w \in writes : w.user = u /\ SentAndRecorded(w)
       /\ ~db[u].analysis_ready_for_email

\* a later tick at the user's email hour: the result is still stored, the
\* flag is false, and the gate holds the email back
C20_WitnessLaterTick ==
    \E i \in 1 .. Len(usersForEmail) :
       /\ HasKeys(usersForEmail[i].last_analysis_results)
       /\ ~usersForEmail[i].analysis_ready_for_email
       /\ mailResult[usersForEmail[i].id] = "gated"


-----------------------------------------------------------------------------
(* Claims about createListHtml *)

IsTag(lexeme) == lexeme \in {"<p>", "</p>", "<ul>", "</ul>", "<li>", "</li>"}

\* the fragment without its tags
TextOf(html) == SelectSeq(html, LAMBDA t : ~IsTag(t))

TagsOf(html) == SelectSeq(html, IsTag)

HasDelimiter(s) ==
    \E i \in 1 .. (Len(s) - 1) : s[i] = EscapedNewline /\ s[i + 1] = BulletDash

\* the whole cleaned string as one paragraph, escaped newlines as breaks
IsParagraphOf(html, cleanedStr) ==
    /\ Len(html) = Len(cleanedStr) + 2
    /\ html[1] = "<p>"
    /\ html[Len(html)] = "</p>"
    /\ \A i \in 1 .. Len(cleanedStr) :
          html[i + 1] = IF cleanedStr[i] = EscapedNewline THEN "<br>" ELSE cleanedStr[i]

\* an unordered list with exactly the given items, in order
IsListOf(html, items) ==
    /\ TagsOf(html) = <<"<ul>">> \o Concat([i \in 1 .. Len(items) |-> <<"<li>", "</li>">>])
                         \o <<"</ul>">>
    /\ TextOf(html) = Concat(items)
    /\ \A i \in 1 .. Len(html) : html[i] = "<li>" => html[i + 1] \notin {"</li>", "<li>"}

IsNoContentParagraph(html, title) ==
    html = <<"<p>", "No ", LowerTitle(title), " provided.", "</p>">>

\* C16 as stated: on a non-blank string, at most one non-empty fragment (a
\* fragment non-empty once trimmed and cleaned) gives one paragraph holding
\* the cleaned string, otherwise a list with one item per such fragment.
C16_AtMostOneFragmentIsParagraph ==
    pc = "returned" =>
       IF input.str.type # "string" \/ IsBlank(input.str.text)
       THEN IsNoContentParagraph(output, input.title)
       ELSE LET cleanedStr == CleanedStr(input.str.text)
                kept       == ItemsOf(cleanedStr)
            IN  IF Len(kept) <= 1
                THEN IsParagraphOf(output, cleanedStr)
                ELSE IsListOf(output, kept)

\* C16: blank or non-string input gives the paragraph 'No <title lowercased>
\* provided.'; on a non-blank string the output is one paragraph holding the
\* whole cleaned string when no fragment is left after cleaning, or when one
\* is left and the cleaned string holds no delimiter; otherwise it is an
\* unordered list with exactly one item per fragment left, in input order
\* (one item too, when the cleaned string holds a delimiter).
C16_ParagraphOrList ==
    pc = "returned" =>
       IF input.str.type # "string" \/ IsBlank(input.str.text)
       THEN IsNoContentParagraph(output, input.title)
       ELSE LET cleanedStr == CleanedStr(input.str.text)
                kept       == ItemsOf(cleanedStr)
            IN  IF Len(kept) = 0 \/ (Len(kept) = 1 /\ ~HasDelimiter(cleanedStr))
                THEN IsParagraphOf(output, cleanedStr)
                ELSE IsListOf(output, kept)

\* one fragment is left and the cleaned string holds a delimiter: a list of
\* one item
C16_Witness ==
    /\ pc = "returned"
    /\ input.str.type = "string"
    /\ Len(ItemsOf(CleanedStr(input.str.text))) = 1
    /\ HasDelimiter(CleanedStr(input.str.text))
    /\ output = <<"<ul>", "<li>", "a", "</li>", "</ul>">>

\* two fragments are left, in input order
C16_WitnessTwoItems ==
    /\ pc = "returned"
    /\ output = <<"<ul>", "<li>", "a", "</li>", "<li>", "b", "</li>", "</ul>">>

\* one fragment and no delimiter: the paragraph
C16_WitnessParagraph ==
    /\ pc = "returned"
    /\ input.str.type = "string"
    /\ Len(ItemsOf(CleanedStr(input.str.text))) = 1
    /\ output = <<"<p>", "a", "<br>", "b", "</p>">>


-----------------------------------------------------------------------------
(* Claims about formatContentThemesHtml *)

\* the candidate strings of an input, each cleaned as the code cleans it:
\* the elements of the array, or the fragments of the bullet-delimited string
CleanedCandidates(themesInput) ==
    IF themesInput.type \in {"array", "json"}
    THEN [i \in 1 .. Len(themesInput.items) |-> CleanTheme(themesInput.items[i])]
    ELSE IF themesInput.type = "string"
         THEN LET parts == SplitOnDelimiter(themesInput.text) IN
              [i \in 1 .. Len(parts) |-> CleanTheme(PreCleanTheme(parts[i]))]
         ELSE <<>>

\* the discards the claim lists
DiscardedAsStated(cleaned) ==
    \/ cleaned = <<>>
    \/ cleaned = <<Star>>
    \/ cleaned = <<DoubleDash>>
    \/ IsBareOrdinal(cleaned)

\* the discards of the code: the listed ones and every single character
DiscardedShort(cleaned) ==
    \/ Length(cleaned) <= 1
    \/ cleaned = <<DoubleDash>>
    \/ IsBareOrdinal(cleaned)

\* C17 as stated: a candidate is discarded iff after cleaning it is empty, a
\* single asterisk, a double dash or a bare ordinal; every other candidate is
\* exactly one list item, in input order; the output is the placeholder iff
\* no candidate survives.
C17_DiscardsOnlyListedCandidates ==
    pc = "returned" =>
       LET survivors == SelectSeq(CleanedCandidates(input),
                                  LAMBDA c : ~DiscardedAsStated(c))
       IN  IF survivors = <<>>
           THEN output = ThemesPlaceholder
           ELSE IsListOf(output, survivors)

\* C17: a string that parses as JSON to something that is no array gives the
\* placeholder; for every other input a candidate is discarded iff after
\* cleaning it has at most one character (empty and a single asterisk
\* included), is a double dash or is a bare ordinal; every other candidate
\* is exactly one list item, in input order; and the output is the 'No
\* specific themes provided.' paragraph iff no candidate survives.
C17_DiscardsShortCandidates ==
    pc = "returned" =>
       LET survivors == SelectSeq(CleanedCandidates(input),
                                  LAMBDA c : ~DiscardedShort(c))
       IN  IF input.type = "string" /\ ParsesAsNumber(input.text)
           THEN output = ThemesPlaceholder
           ELSE IF survivors = <<>>
                THEN output = ThemesPlaceholder
                ELSE IsListOf(output, survivors)

\* an array whose one-character element is left out of the list
C17_Witness ==
    /\ pc = "returned"
    /\ input = Arr(<< <<"a">>, <<LongWord>> >>)
    /\ output = <<"<ul>", "<li>", LongWord, "</li>", "</ul>">>

\* a bullet-delimited string with a bare ordinal among its fragments
C17_WitnessString ==
    /\ pc = "returned"
    /\ input = Str(<<Numeral, EscapedNewline, BulletDash, LongWord>>)
    /\ output = <<"<ul>", "<li>", LongWord, "</li>", "</ul>">>

\* a string of digits parses as a number
C17_WitnessNumber ==
    /\ pc = "returned"
    /\ input = Str(<<Digits>>)
    /\ output = ThemesPlaceholder


-----------------------------------------------------------------------------
(* Claims about formatHashtagStrategyHtml *)

\* the lines of the input, bold markers gone, each trimmed
TrimmedLines(text) ==
    LET lines == SplitOnNewline(RemoveBold(text)) IN
    [i \in 1 .. Len(lines) |-> Trim(lines[i])]

IsLabelLine(line) == line # <<>> /\ IsSectionTitle(line[1])

IsBulletLine(line) == line # <<>> /\ line[1] = BulletDash

\* the text of a bullet: what follows the bullet-dash, trimmed
BulletText(line) == Trim(Tail(line))

\* the positions of the label lines, in input order
LabelPositions(lines) ==
    SelectSeq([i \in 1 .. Len(lines) |-> i], LAMBDA i : IsLabelLine(lines[i]))

\* the items under the label line at position k: the bullet on the label
\* line itself, then the bullet lines up to the next label line or the end
ItemsUnder(lines, k) ==
    LET next  == IF \E j \in (k + 1) .. Len(lines) : IsLabelLine(lines[j])
                 THEN CHOOSE j \in (k + 1) .. Len(lines) :
                         /\ IsLabelLine(lines[j])
                         /\ \A i \in (k + 1) .. (j - 1) : ~IsLabelLine(lines[i])
                 ELSE Len(lines) + 1
        own   == IF IsBulletLine(BulletText(lines[k]))
                 THEN <<BulletText(BulletText(lines[k]))>>
                 ELSE <<>>
        below == SelectSeq(SubSeq(lines, k + 1, next - 1), IsBulletLine)
    IN  own \o [i \in 1 .. Len(below) |-> BulletText(below[i])]

SectionUnder(lines, k) ==
    <<"<h4>", lines[k][1], "</h4>">>
       \o (IF ItemsUnder(lines, k) = <<>>
           THEN NoHashtagsListed
           ELSE <<"<ul>">> \o ListItems(ItemsUnder(lines, k)) \o <<"</ul>">>)

\* C15: the output has exactly one H4 heading per label line, in input
\* order, each followed by the bullet items seen since that label line (the
\* bullet on the label line first, then the bullet-dash lines up to the next
\* label line or the end), or by 'No specific hashtags listed.' when there
\* are none; bullet lines before the first label and non-bullet lines add
\* nothing; and the output is 'No hashtag strategy provided.' iff no label
\* line was recognized.
C15_OneHeadingPerLabel ==
    pc = "returned" =>
       LET lines  == IF input.type = "string" THEN TrimmedLines(input.text) ELSE <<>>
           labels == LabelPositions(lines)
       IN  /\ labels = <<>> <=> output = HashtagPlaceholder
           /\ labels # <<>> =>
                 output = Concat([n \in 1 .. Len(labels) |-> SectionUnder(lines, labels[n])])

\* a label line with its own bullet and a bullet line below it, then a label
\* line with nothing under it
C15_Witness ==
    /\ pc = "returned"
    /\ output = <<"<h4>", sectionTitles[1], "</h4>", "<ul>", "<li>", "a", "</li>",
                  "<li>", LongWord, "</li>", "</ul>",
                  "<h4>", sectionTitles[3], "</h4>">> \o NoHashtagsListed

\* a bullet line before the first label line adds nothing
C15_WitnessBulletBeforeLabel ==
    /\ pc = "returned"
    /\ input = Str(<<BulletDash, LongWord, EscapedNewline, sectionTitles[1], EscapedNewline,
                     Space, BulletDash, "b", Space>>)
    /\ output = <<"<h4>", sectionTitles[1], "</h4>", "<ul>", "<li>", "b", "</li>", "</ul>">>


-----------------------------------------------------------------------------
(* Claims about formatMarketingStrategyToHtml *)

\* a field that is present but empty or blank: '', white space, []
IsEmptyOrBlank(value) ==
    \/ value.type = "string" /\ IsBlank(value.text)
    \/ value.type \in {"array", "json"} /\ value.items = <<>>

\* the document with the key absent
Without(marketingStrategy, key) == [marketingStrategy EXCEPT ![key] = Undefined]

NoSurvivorFragments == {EmptyDocumentFragment, NothingSurvivedFragment}

\* C12 as stated: a section whose field is present but empty or blank is
\* suppressed exactly as if its key were absent: the output is the output
\* for the document without that key (either no-information fragment, when
\* nothing else is in the document).
C12_BlankFieldAsAbsent ==
    (pc = "returned" /\ input.defined) =>
       \A i \in 1 .. Len(sections) :
          LET key == sections[i].key IN
          IsEmptyOrBlank(input[key]) =>
             \/ output = formatMarketingStrategyToHtml(Without(input, key))
             \/ /\ output \in NoSurvivorFragments
                /\ formatMarketingStrategyToHtml(Without(input, key)) \in NoSurvivorFragments

\* a section survives: its content is truthy and its fragment holds none of
\* the three phrases
Survives(marketingStrategy, section) ==
    LET content == ContentOf(marketingStrategy, section.key) IN
    /\ TruthyValue(content)
    /\ \A i \in 1 .. Len(Processed(section, content)) :
          ~HasSuppressingPhrase(Processed(section, content)[i])

NoSectionSurvives(marketingStrategy) ==
    \A i \in 1 .. Len(sections) : ~Survives(marketingStrategy, sections[i])

\* C13 as stated: the fixed 'No detailed strategy information available.'
\* fragment is returned for an empty document, and that same fragment for a
\* non-empty document of which no section survives.
C13_SameFragmentWhenNoneSurvives ==
    pc = "returned" =>
       /\ IsEmptyDocument(input) => output = EmptyDocumentFragment
       /\ (~IsEmptyDocument(input) /\ NoSectionSurvives(input)) =>
             output = EmptyDocumentFragment

\* C13: for an empty document the output is the heading and 'No detailed
\* strategy information available.'; for a non-empty document of which no
\* section survives it is the heading and 'No detailed strategy information
\* available at this time.', nothing produced being kept; and neither
\* fragment is returned in any other case.
C13_FragmentWhenNoneSurvives ==
    pc = "returned" =>
       /\ IsEmptyDocument(input) => output = EmptyDocumentFragment
       /\ (~IsEmptyDocument(input) /\ NoSectionSurvives(input)) =>
             output = NothingSurvivedFragment
       /\ output \in NoSurvivorFragments =>
             IsEmptyDocument(input) \/ NoSectionSurvives(input)

\* a document with fields of which every section was suppressed
C13_Witness ==
    /\ pc = "returned"
    /\ ~IsEmptyDocument(input)
    /\ TruthyValue(input.sampleScript)
    /\ TruthyValue(input.hashtagStrategy)
    /\ NoSectionSurvives(input)
    /\ output = NothingSurvivedFragment

HasBalancesSentence(value) ==
    /\ value.type = "string"
    /\ \E i \in 1 .. Len(value.text) : value.text[i] = BalancesSentence

\* the paragraph holding the field from the sentence to its end, bold
\* markers gone, escaped newlines as spaces
TrailingParagraph(value) ==
    LET at == CHOOSE i \in 1 .. Len(value.text) :
                 /\ value.text[i] = BalancesSentence
                 /\ \A j \in 1 .. (i - 1) : value.text[j] # BalancesSentence
        rest == SubSeq(value.text, at, Len(value.text))
        text == SelectSeq([i \in 1 .. Len(rest) |->
                              IF rest[i] = EscapedNewline THEN Space ELSE rest[i]],
                          LAMBDA t : t # Bold)
    IN  <<"<p>">> \o Trim(text) \o <<"</p>">>

EndsWith(s, tail) ==
    /\ Len(s) >= Len(tail)
    /\ SubSeq(s, Len(s) - Len(tail) + 1, Len(s)) = tail

\* C14 as stated: whenever the postingFrequency field of a non-empty
\* document is a string containing the sentence, the output ends with the
\* trailing paragraph, whichever sections were suppressed.
C14_TrailerWhateverSuppressed ==
    (pc = "returned" /\ ~IsEmptyDocument(input) /\ HasBalancesSentence(input.postingFrequency))
       => EndsWith(output, TrailingParagraph(input.postingFrequency))

\* C14: whenever the postingFrequency field of a non-empty document is a
\* string containing the sentence and at least one section survives, the
\* output ends with one trailing paragraph holding the text from the
\* sentence to the end of the field, after the sections, whether or not the
\* Posting Frequency section is among the survivors; when no section
\* survives the output is the no-information fragment, without the trailer.
C14_TrailerWhenSomethingSurvives ==
    (pc = "returned" /\ ~IsEmptyDocument(input) /\ HasBalancesSentence(input.postingFrequency))
       => IF NoSectionSurvives(input)
          THEN output = NothingSurvivedFragment
          ELSE /\ EndsWith(output, TrailingParagraph(input.postingFrequency))
               /\ output[Len(output) - Len(TrailingParagraph(input.postingFrequency))]
                     \in {"</p>", "</ul>"}

\* the Posting Frequency section is suppressed, another section survives,
\* and the trailer is there
C14_Witness ==
    /\ pc = "returned"
    /\ HasBalancesSentence(input.postingFrequency)
    /\ ~Survives(input, sections[7])
    /\ Survives(input, sections[2])
    /\ EndsWith(output, TrailingParagraph(input.postingFrequency))

\* the sentence is there and no section survives: no trailer
C14_WitnessNoTrailer ==
    /\ pc = "returned"
    /\ HasBalancesSentence(input.postingFrequency)
    /\ NoSectionSurvives(input)
    /\ output = NothingSurvivedFragment

-----------------------------------------------------------------------------
(* Claims about the sections of the assembled document *)

\* the section of that title is in the document
SectionAppears(html, title) ==
    \E i \in 1 .. (Len(html) - 2) : SubSeq(html, i, i + 2) = <<"<h3>", title, "</h3>">>

\* the Visual Cues region and the Voiceover/Script region of the field are
\* both there and non-blank
BothRegionsNonBlank(value) ==
    /\ value.type = "string"
    /\ ~IsBlank(VisualCuesGroup(RemoveBold(value.text)))
    /\ ~IsBlank(VoiceoverGroup(RemoveBold(value.text)))

\* a recognized label of the field is flushed with zero items
SomeLabelWithoutItems(value) ==
    /\ value.type = "string"
    /\ LET lines  == TrimmedLines(value.text)
           labels == LabelPositions(lines)
       IN  \E n \in 1 .. Len(labels) : ItemsUnder(lines, labels[n]) = <<>>

ScriptSectionOnlyWithBothRegions ==
    SectionAppears(output, sections[3].title) => BothRegionsNonBlank(input.sampleScript)

HashtagSectionOnlyWithoutEmptyLabel ==
    SectionAppears(output, sections[6].title) => ~SomeLabelWithoutItems(input.hashtagStrategy)

\* C21 as stated: in the assembled document the 'Sample TikTok Script'
\* section appears only if both the Visual Cues region and the
\* Voiceover/Script region of sampleScript are non-blank, and the 'Hashtag
\* Strategy' section appears only if no recognized label was flushed with
\* zero items.
C21_SectionsOnlyWithoutPlaceholder ==
    pc = "returned" =>
       /\ ScriptSectionOnlyWithBothRegions
       /\ HashtagSectionOnlyWithoutEmptyLabel

\* C21, the part that holds: the 'Hashtag Strategy' section appears only if
\* no recognized label was flushed with zero items, and the 'Sample TikTok
\* Script' section of a sampleScript that is not blank appears only if both
\* regions are non-blank.
C21_ExceptBlankScript ==
    pc = "returned" =>
       /\ ~IsEmptyOrBlank(input.sampleScript) => ScriptSectionOnlyWithBothRegions
       /\ HashtagSectionOnlyWithoutEmptyLabel

\* a blank sampleScript: the section is there, with its placeholder
C21_WitnessBlankScript ==
    /\ pc = "returned"
    /\ IsEmptyOrBlank(input.sampleScript)
    /\ SectionAppears(output, sections[3].title)
    /\ \E i \in 1 .. Len(output) : output[i] = "No sample script provided."

\* one region blank: 'Not specified.' keeps the whole section out
C21_WitnessRegionBlank ==
    /\ pc = "returned"
    /\ ~IsEmptyOrBlank(input.sampleScript)
    /\ input.sampleScript.type = "string"
    /\ ~BothRegionsNonBlank(input.sampleScript)
    /\ ~SectionAppears(output, sections[3].title)
    /\ output # NothingSurvivedFragment

\* both regions non-blank: the section is there
C21_WitnessBothRegions ==
    /\ pc = "returned"
    /\ BothRegionsNonBlank(input.sampleScript)
    /\ SectionAppears(output, sections[3].title)

\* two labels, the first flushed with zero items and the second with one:
\* the whole section is out
C21_WitnessEmptyLabel ==
    /\ pc = "returned"
    /\ SomeLabelWithoutItems(input.hashtagStrategy)
    /\ Len(LabelPositions(TrimmedLines(input.hashtagStrategy.text))) = 2
    /\ ~SectionAppears(output, sections[6].title)
    /\ output # NothingSurvivedFragment

\* every label has items: the section is there
C21_WitnessHashtags ==
    /\ pc = "returned"
    /\ input.hashtagStrategy.type = "string"
    /\ LabelPositions(TrimmedLines(input.hashtagStrategy.text)) # <<>>
    /\ SectionAppears(output, sections[6].title)

====
